---- MODULE Spec2Model ----
(***************************************************************************)
(* Model of the Titan outreach MCP server (mcp-server/server.py and        *)
(* mcp-server/tools/*.py): pipeline routing, hunter-note generation with   *)
(* its character budget, the resume / cold-email resolver, the skill-gap   *)
(* detector and the outreach-context resolver.                             *)
(*                                                                         *)
(* Python strings whose characters matter are sequences of one-character   *)
(* strings; Python's None is the one-element sequence None below, which is *)
(* no text over any alphabet used here.  Field names, contact types and    *)
(* other strings that are only compared as a whole are TLA+ strings.       *)
(***************************************************************************)
EXTENDS Integers, Sequences, FiniteSets, TLC

VARIABLES
    call,       \* the last direct tool call: operation, arguments, outcome
    airtable,   \* the Airtable base: Contacts and Applications tables
    pg,         \* Windmill Postgres: generated_resumes and resumes tables
    ctx,        \* per invocation of get_outreach_context: its locals and position
    vectors,    \* VectorTools' class attributes and the threads constructing it
    discord     \* a Discord thread's messages, the clock and the waits on it

vars == <<call, airtable, pg, ctx, vectors, discord>>

----------------------------------------------------------------------------
(* Bounds of the model *)

\* longest text the generation service returns
MaxTextLen == 6
\* largest max_length passed to generate_cold_connect_note
MaxMaxLength == 5
\* longest job description / resume text given to the skill-gap detector
MaxSkillTextLen == 2
\* longest skill keyword given to the skill-gap detector
MaxSkillLen == 2

----------------------------------------------------------------------------
(* Python values and string primitives *)

None == <<"None">>
\* the None of a value that the model holds as a TLA+ string (source_field)
Nil == "None"
\* the None of an integer argument (application_id)
NoApp == -1

\* bool(x) of an optional string
Truthy(x) == x # None /\ x # <<>>
\* x or y
Or(x, y) == IF Truthy(x) THEN x ELSE y

Min(a, b) == IF a <= b THEN a ELSE b
Max(a, b) == IF a >= b THEN a ELSE b

\* all texts over alphabet A of length at most n
TextsUpTo(A, n) == UNION {[1..k -> A] : k \in 0..n}

Whitespace == {" ", "\t", "\n", "\r"}
QuoteChars == {"\"", "'"}

RECURSIVE LStrip(_, _)
LStrip(s, cs) == IF s # <<>> /\ Head(s) \in cs THEN LStrip(Tail(s), cs) ELSE s

RECURSIVE RStrip(_, _)
RStrip(s, cs) ==
    IF s # <<>> /\ s[Len(s)] \in cs THEN RStrip(SubSeq(s, 1, Len(s) - 1), cs) ELSE s

\* s.strip(cs)
StripChars(s, cs) == RStrip(LStrip(s, cs), cs)

\* s[:n], negative n counting from the end
Prefix(s, n) ==
    IF n >= 0 THEN SubSeq(s, 1, Min(n, Len(s)))
    ELSE SubSeq(s, 1, Max(0, Len(s) + n))

\* s.rfind(c): 0-based index of the last c in s, -1 when there is none
RFind(s, c) ==
    LET hits == {i \in 1..Len(s) : s[i] = c}
    IN  IF hits = {} THEN -1 ELSE (CHOOSE i \in hits : \A j \in hits : j <= i) - 1

Ellipsis == <<".", ".", ".">>

UpperLetters == <<"A","B","C","D","E","F","G","H","I","J","K","L","M",
                  "N","O","P","Q","R","S","T","U","V","W","X","Y","Z">>
LowerLetters == <<"a","b","c","d","e","f","g","h","i","j","k","l","m",
                  "n","o","p","q","r","s","t","u","v","w","x","y","z">>

\* one character of s.lower()
LowerChar(c) ==
    IF \E i \in 1..26 : UpperLetters[i] = c
    THEN LowerLetters[CHOOSE i \in 1..26 : UpperLetters[i] = c]
    ELSE c

\* s.lower()
Lower(s) == [i \in 1..Len(s) |-> LowerChar(s[i])]

\* needle in hay
Contains(needle, hay) ==
    \E i \in 0..(Len(hay) - Len(needle)) : SubSeq(hay, i + 1, i + Len(needle)) = needle

----------------------------------------------------------------------------
(* tools/outreach.py: pipeline router and hunter note *)

Degrees == {"1st", "2nd", "3rd", "", "1ST", "unknown"}
Sources == {"apollo", "csv_import", "apify", "", "CSV_IMPORT", "network"}

\* routing that needs both conditions
determine_pipeline_Both(connection_degree, contact_source) ==
    IF connection_degree = "1st" /\ contact_source = "csv_import"
    THEN "farmer"
    ELSE "hunter"

determine_pipeline(connection_degree, contact_source) ==
    IF connection_degree = "1st" \/ contact_source = "csv_import"
    THEN "farmer"
    ELSE "hunter"

\* characters of the texts the generation service returns
MsgAlphabet == {"a", ".", "?", " ", "\""}
ServiceTexts == TextsUpTo(MsgAlphabet, MaxTextLen)
MaxLengths == 0..MaxMaxLength

Epic == <<"e", "p", "i", "c">>
NoteJobDescriptions == {<<>>, <<"E", "P", "I", "C">>}
NoteResumeContexts == {None, <<"E", "p", "i", "c">>}

\* message.strip().strip('"\'')
CleanMessage(content) == StripChars(StripChars(content, Whitespace), QuoteChars)

\* the sentence cut taken already when the cut point is at 60% of max_length
EnforceLimit_AtOrAfter(message, max_length) ==
    IF Len(message) > max_length
    THEN LET truncated == Prefix(message, max_length)
             last_period == RFind(truncated, ".")
             last_question == RFind(truncated, "?")
             cut_point == Max(last_period, last_question)
         IN  IF 10 * cut_point >= 6 * max_length
             THEN Prefix(truncated, cut_point + 1)
             ELSE Prefix(truncated, max_length - 3) \o Ellipsis
    ELSE message

\* the "ENFORCE character limit" block
EnforceLimit(message, max_length) ==
    IF Len(message) > max_length
    THEN LET truncated == Prefix(message, max_length)
             last_period == RFind(truncated, ".")
             last_question == RFind(truncated, "?")
             cut_point == Max(last_period, last_question)
         IN  IF 10 * cut_point > 6 * max_length   \* cut_point > max_length * 0.6
             THEN Prefix(truncated, cut_point + 1)
             ELSE Prefix(truncated, max_length - 3) \o Ellipsis
    ELSE message

HasEpicGap(job_description, resume_context, resume_highlights) ==
    LET check_text == Lower(Or(resume_context, Or(resume_highlights, <<>>)))
        has_epic_requirement ==
            IF Truthy(job_description) THEN Contains(Epic, Lower(job_description)) ELSE FALSE
        has_epic_skill == Contains(Epic, check_text)
    IN  has_epic_requirement /\ ~has_epic_skill

NoteResult(content, max_length, job_description, resume_context, resume_highlights) ==
    LET message == EnforceLimit(CleanMessage(content), max_length)
    IN  [success |-> TRUE,
         message |-> message,
         char_count |-> Len(message),
         max_allowed |-> max_length,
         has_epic_gap |-> HasEpicGap(job_description, resume_context, resume_highlights),
         type |-> "cold_connect_note",
         pipeline |-> "hunter"]

\* no tool call made yet; each behaviour of the tool specifications makes one
NoCall == [op |-> "none", raised |-> FALSE]

DeterminePipeline(connection_degree, contact_source) ==
    /\ call = NoCall
    /\ call' = [op |-> "determine_pipeline",
                args |-> [connection_degree |-> connection_degree,
                          contact_source |-> contact_source],
                raised |-> FALSE,
                ret |-> determine_pipeline(connection_degree, contact_source)]
    /\ UNCHANGED <<airtable, pg, ctx, vectors, discord>>

\* the generation service answers with content
GenerateColdConnectNote(content, max_length, job_description, resume_context) ==
    /\ call = NoCall
    /\ call' = [op |-> "generate_cold_connect_note",
                args |-> [max_length |-> max_length,
                          job_description |-> job_description,
                          resume_context |-> resume_context,
                          resume_highlights |-> <<>>],
                service |-> content,
                service_calls |-> 1,
                raised |-> FALSE,
                ret |-> NoteResult(content, max_length, job_description,
                                   resume_context, <<>>)]
    /\ UNCHANGED <<airtable, pg, ctx, vectors, discord>>

\* the generation service call raises: nothing catches it
GenerateColdConnectNoteFails(max_length, job_description, resume_context) ==
    /\ call = NoCall
    /\ call' = [op |-> "generate_cold_connect_note",
                args |-> [max_length |-> max_length,
                          job_description |-> job_description,
                          resume_context |-> resume_context,
                          resume_highlights |-> <<>>],
                service |-> None,
                service_calls |-> 1,
                raised |-> TRUE]
    /\ UNCHANGED <<airtable, pg, ctx, vectors, discord>>

\* bound: length of the texts the generation service returns to the farmer,
\* refinement and dispatch calls
MaxMessageLen == 5

\* max_length of generate_cold_connect_note when the caller gives none
DefaultMaxLength == 295
\* max_length None
NoMaxLength == -1

MessageTexts == TextsUpTo(MsgAlphabet, MaxMessageLen)
Pipelines == {"hunter", "farmer"}
RefineMaxLengths == {NoMaxLength} \cup MaxLengths
ColdEmailTemplates == {None, <<"c">>}
ResumeContexts == {None, <<"r">>}
ResumeHighlights == {<<>>, <<"h">>}

\* the step swapping the first two priorities: resume context before template
build_value_section_ContextFirst(cold_email_template, resume_context, resume_highlights) ==
    IF Truthy(resume_context)
    THEN <<"Resume context to draw from">> \o Prefix(resume_context, 500)
    ELSE IF Truthy(cold_email_template)
    THEN <<"Cold email template to condense">> \o Prefix(cold_email_template, 800)
    ELSE IF Truthy(resume_highlights)
    THEN <<"Background highlights">> \o Prefix(resume_highlights, 500)
    ELSE <<"No specific background provided. Focus on genuine interest in the role.">>

\* _build_value_section: the background the prompt offers the service
build_value_section(cold_email_template, resume_context, resume_highlights) ==
    IF Truthy(cold_email_template)
    THEN <<"Cold email template to condense">> \o Prefix(cold_email_template, 800)
    ELSE IF Truthy(resume_context)
    THEN <<"Resume context to draw from">> \o Prefix(resume_context, 500)
    ELSE IF Truthy(resume_highlights)
    THEN <<"Background highlights">> \o Prefix(resume_highlights, 500)
    ELSE <<"No specific background provided. Focus on genuine interest in the role.">>

\* generate_warm_dm's return: the cleaned text, no limit applied
WarmResult(content) ==
    LET message == CleanMessage(content)
    IN  [success |-> TRUE,
         message |-> message,
         char_count |-> Len(message),
         type |-> "warm_dm",
         pipeline |-> "farmer"]

\* refine_message: the limit in force
EffectiveMaxLength(pipeline, max_length) ==
    IF pipeline = "hunter" /\ max_length = NoMaxLength THEN DefaultMaxLength ELSE max_length

\* refine_message: "if max_length and len(message) > max_length"
RefineLimit(message, max_length) ==
    IF max_length # NoMaxLength /\ max_length # 0 /\ Len(message) > max_length
    THEN Prefix(message, max_length - 3) \o Ellipsis
    ELSE message

RefineResult(content, max_length, pipeline) ==
    LET effective == EffectiveMaxLength(pipeline, max_length)
        message == RefineLimit(CleanMessage(content), effective)
    IN  [success |-> TRUE,
         message |-> message,
         char_count |-> Len(message),
         max_allowed |-> effective,
         pipeline |-> pipeline]

\* the dispatch on the connection degree alone
generate_message_DegreeOnly(content, connection_degree, contact_source, job_description, resume_context, resume_highlights) ==
    IF connection_degree = "1st"
    THEN [invoked |-> <<"generate_warm_dm">>, ret |-> WarmResult(content)]
    ELSE [invoked |-> <<"generate_cold_connect_note">>,
          ret |-> NoteResult(content, DefaultMaxLength, job_description,
                             resume_context, resume_highlights)]

\* generate_message: the generators invoked, and the return
generate_message(content, connection_degree, contact_source, job_description, resume_context, resume_highlights) ==
    LET pipeline == determine_pipeline(connection_degree, contact_source)
    IN  IF pipeline = "farmer"
        THEN [invoked |-> <<"generate_warm_dm">>, ret |-> WarmResult(content)]
        ELSE [invoked |-> <<"generate_cold_connect_note">>,
              ret |-> NoteResult(content, DefaultMaxLength, job_description,
                                 resume_context, resume_highlights)]

GenerateWarmDm(content, cold_email_template, resume_context, resume_highlights) ==
    /\ call = NoCall
    /\ call' = [op |-> "generate_warm_dm",
                args |-> [cold_email_template |-> cold_email_template,
                          resume_context |-> resume_context,
                          resume_highlights |-> resume_highlights],
                value_section |-> build_value_section(cold_email_template,
                                      resume_context, resume_highlights),
                service |-> content,
                service_calls |-> 1,
                raised |-> FALSE,
                ret |-> WarmResult(content)]
    /\ UNCHANGED <<airtable, pg, ctx, vectors, discord>>

\* the generation service call raises: nothing catches it
GenerateWarmDmFails(cold_email_template, resume_context, resume_highlights) ==
    /\ call = NoCall
    /\ call' = [op |-> "generate_warm_dm",
                args |-> [cold_email_template |-> cold_email_template,
                          resume_context |-> resume_context,
                          resume_highlights |-> resume_highlights],
                value_section |-> build_value_section(cold_email_template,
                                      resume_context, resume_highlights),
                service |-> None,
                service_calls |-> 1,
                raised |-> TRUE]
    /\ UNCHANGED <<airtable, pg, ctx, vectors, discord>>

RefineMessage(content, max_length, pipeline) ==
    /\ call = NoCall
    /\ call' = [op |-> "refine_message",
                args |-> [max_length |-> max_length, pipeline |-> pipeline],
                service |-> content,
                service_calls |-> 1,
                raised |-> FALSE,
                ret |-> RefineResult(content, max_length, pipeline)]
    /\ UNCHANGED <<airtable, pg, ctx, vectors, discord>>

\* the generation service call raises: nothing catches it
RefineMessageFails(max_length, pipeline) ==
    /\ call = NoCall
    /\ call' = [op |-> "refine_message",
                args |-> [max_length |-> max_length, pipeline |-> pipeline],
                service |-> None,
                service_calls |-> 1,
                raised |-> TRUE]
    /\ UNCHANGED <<airtable, pg, ctx, vectors, discord>>

GenerateMessage(content, connection_degree, contact_source, cold_email_template, resume_context, resume_highlights) ==
    /\ call = NoCall
    /\ LET r == generate_message(content, connection_degree, contact_source, <<>>,
                                 resume_context, resume_highlights)
       IN  call' = [op |-> "generate_message",
                    args |-> [connection_degree |-> connection_degree,
                              contact_source |-> contact_source,
                              job_description |-> <<>>,
                              cold_email_template |-> cold_email_template,
                              resume_context |-> resume_context,
                              resume_highlights |-> resume_highlights],
                    value_section |-> build_value_section(cold_email_template,
                                          resume_context, resume_highlights),
                    invoked |-> r.invoked,
                    service |-> content,
                    service_calls |-> 1,
                    raised |-> FALSE,
                    ret |-> r.ret]
    /\ UNCHANGED <<airtable, pg, ctx, vectors, discord>>

\* the generator's service call raises, and so does generate_message
GenerateMessageFails(connection_degree, contact_source) ==
    /\ call = NoCall
    /\ call' = [op |-> "generate_message",
                args |-> [connection_degree |-> connection_degree,
                          contact_source |-> contact_source,
                          job_description |-> <<>>,
                          cold_email_template |-> None,
                          resume_context |-> None,
                          resume_highlights |-> <<>>],
                value_section |-> build_value_section(None, None, <<>>),
                invoked |-> generate_message(<<>>, connection_degree, contact_source,
                                             <<>>, None, <<>>).invoked,
                service |-> None,
                service_calls |-> 1,
                raised |-> TRUE]
    /\ UNCHANGED <<airtable, pg, ctx, vectors, discord>>

----------------------------------------------------------------------------
(* tools/resume.py: generated_resumes lookup, cold-email routing, skill gap *)

\* outcome of one database round: asyncpg.connect raises (outside the try),
\* the query raises (inside it), or the query answers
DbOutcomes == {"ok", "query_error", "connect_error"}

ContactTypes == {"hiring_manager", "recruiter", "team_member", "", "other"}

\* rows of generated_resumes; NULL columns are None
GeneratedRows ==
    [tailored_content : {None, <<"t", "e", "p", "i", "c">>},
     final_content : {None, <<>>, <<"s", "q", "l">>, <<"E", "p", "i", "c">>},
     cold_email_recruiter : {None, <<"r">>},
     cold_email_manager : {None, <<"m">>}]

\* an earlier generation of the same application, superseded by any later row
OldRow == [tailored_content |-> <<"o", "t">>, final_content |-> <<"o", "f">>,
           cold_email_recruiter |-> <<"o", "r">>, cold_email_manager |-> <<"o", "m">>]

OtherRow == [tailored_content |-> <<"x", "t">>, final_content |-> <<"x", "f">>,
             cold_email_recruiter |-> <<"x", "r">>, cold_email_manager |-> <<"x", "m">>]

\* rows of resumes (the generic resume), oldest first
GenericResumes ==
    {<<>>, <<[full_text |-> None]>>, <<[full_text |-> <<"E", "P", "I", "C">>]>>,
     <<[full_text |-> <<"x">>], [full_text |-> <<"s", "q", "l">>]>>}

Apps == {1, 2}

\* the oldest generation instead of the latest (ORDER BY generated_at ASC)
LatestRow_Oldest(rows) == rows[1]

\* ORDER BY generated_at DESC LIMIT 1 over rows kept oldest first
LatestRow(rows) == rows[Len(rows)]

\* get_tailored_resume, once connected
get_tailored_resume(application_id, outcome) ==
    LET rows == IF application_id \in DOMAIN pg.generated_resumes
                THEN pg.generated_resumes[application_id] ELSE <<>>
    IN  IF outcome = "query_error"
        THEN [success |-> FALSE, error |-> "Database error",
              tailored_content |-> None, final_content |-> None,
              cold_email_recruiter |-> None, cold_email_manager |-> None]
        ELSE IF rows # <<>>
        THEN LET row == LatestRow(rows)
             IN  [success |-> TRUE, error |-> Nil,
                  tailored_content |-> Or(row.tailored_content, <<>>),
                  final_content |-> Or(row.final_content, <<>>),
                  cold_email_recruiter |-> Or(row.cold_email_recruiter, <<>>),
                  cold_email_manager |-> Or(row.cold_email_manager, <<>>)]
        ELSE [success |-> FALSE, error |-> "No generated resume found",
              tailored_content |-> None, final_content |-> None,
              cold_email_recruiter |-> None, cold_email_manager |-> None]

\* the fallback chain in the order tailored_content, final_content
get_cold_email_TailoredFirst(resume_data, contact_type) ==
    IF ~resume_data.success
    THEN [success |-> TRUE, cold_email |-> None, resume_context |-> None,
          fallback_used |-> TRUE, source_field |-> Nil, note |-> resume_data.error]
    ELSE LET cold_email ==
                 IF contact_type = "hiring_manager"
                 THEN Or(resume_data.cold_email_manager, None)
                 ELSE IF contact_type = "recruiter"
                 THEN Or(resume_data.cold_email_recruiter, None)
                 ELSE None
             source_field ==
                 IF contact_type = "hiring_manager" THEN "cold_email_manager"
                 ELSE IF contact_type = "recruiter" THEN "cold_email_recruiter"
                 ELSE Nil
         IN  IF Truthy(cold_email)
             THEN [success |-> TRUE, cold_email |-> cold_email,
                   resume_context |-> Or(resume_data.final_content, <<>>),
                   fallback_used |-> FALSE, source_field |-> source_field]
             ELSE [success |-> TRUE, cold_email |-> None,
                   resume_context |-> Or(resume_data.tailored_content,
                                         Or(resume_data.final_content, None)),
                   fallback_used |-> TRUE,
                   source_field |-> IF Truthy(resume_data.tailored_content)
                                    THEN "tailored_content" ELSE "final_content"]

\* every contact type but hiring_manager routed to cold_email_recruiter
get_cold_email_PeerAsRecruiter(resume_data, contact_type) ==
    IF ~resume_data.success
    THEN [success |-> TRUE, cold_email |-> None, resume_context |-> None,
          fallback_used |-> TRUE, source_field |-> Nil, note |-> resume_data.error]
    ELSE LET cold_email ==
                 IF contact_type = "hiring_manager"
                 THEN Or(resume_data.cold_email_manager, None)
                 ELSE Or(resume_data.cold_email_recruiter, None)
             source_field ==
                 IF contact_type = "hiring_manager" THEN "cold_email_manager"
                 ELSE "cold_email_recruiter"
         IN  IF Truthy(cold_email)
             THEN [success |-> TRUE, cold_email |-> cold_email,
                   resume_context |-> Or(resume_data.final_content, <<>>),
                   fallback_used |-> FALSE, source_field |-> source_field]
             ELSE [success |-> TRUE, cold_email |-> None,
                   resume_context |-> Or(resume_data.final_content,
                                         Or(resume_data.tailored_content, None)),
                   fallback_used |-> TRUE,
                   source_field |-> IF Truthy(resume_data.final_content)
                                    THEN "final_content" ELSE "tailored_content"]

\* get_cold_email after resume_data has been fetched
get_cold_email(resume_data, contact_type) ==
    IF ~resume_data.success
    THEN [success |-> TRUE, cold_email |-> None, resume_context |-> None,
          fallback_used |-> TRUE, source_field |-> Nil, note |-> resume_data.error]
    ELSE LET cold_email ==
                 IF contact_type = "hiring_manager"
                 THEN Or(resume_data.cold_email_manager, None)
                 ELSE IF contact_type = "recruiter"
                 THEN Or(resume_data.cold_email_recruiter, None)
                 ELSE None
             source_field ==
                 IF contact_type = "hiring_manager" THEN "cold_email_manager"
                 ELSE IF contact_type = "recruiter" THEN "cold_email_recruiter"
                 ELSE Nil
         IN  IF Truthy(cold_email)
             THEN [success |-> TRUE, cold_email |-> cold_email,
                   resume_context |-> Or(resume_data.final_content, <<>>),
                   fallback_used |-> FALSE, source_field |-> source_field]
             ELSE [success |-> TRUE, cold_email |-> None,
                   resume_context |-> Or(resume_data.final_content,
                                         Or(resume_data.tailored_content, None)),
                   fallback_used |-> TRUE,
                   source_field |-> IF Truthy(resume_data.final_content)
                                    THEN "final_content" ELSE "tailored_content"]

\* get_active_resume() with no arguments, once connected: the latest row
get_active_resume(outcome) ==
    IF outcome = "query_error" \/ pg.resumes = <<>>
    THEN [success |-> FALSE, full_text |-> <<>>]
    ELSE [success |-> TRUE, full_text |-> pg.resumes[Len(pg.resumes)].full_text]

\* the resume text check_skill_match compares against
SkillResumeText(application_id, outcome) ==
    IF application_id # NoApp /\ application_id # 0
    THEN LET resume_data == get_tailored_resume(application_id, outcome)
         IN  Or(resume_data.final_content, Or(resume_data.tailored_content, <<>>))
    ELSE get_active_resume(outcome).full_text

\* the skill keyword compared without lowering it
check_skill_match_RawSkill(job_description, skill_to_check, resume_text) ==
    LET jd_lower == Lower(job_description)
        resume_lower == Lower(resume_text)
        skill_lower == skill_to_check
        requirement_found == Contains(skill_lower, jd_lower)
        skill_found == Contains(skill_lower, resume_lower)
    IN  [skill |-> skill_to_check,
         requirement_found |-> requirement_found,
         skill_found |-> skill_found,
         has_gap |-> requirement_found /\ ~skill_found,
         recommendation |-> IF requirement_found /\ ~skill_found
                            THEN "JD requires skill but resume doesn't mention it"
                            ELSE Nil]

\* check_skill_match once resume_text is resolved
check_skill_match(job_description, skill_to_check, resume_text) ==
    LET jd_lower == Lower(job_description)
        resume_lower == Lower(resume_text)
        skill_lower == Lower(skill_to_check)
        requirement_found == Contains(skill_lower, jd_lower)
        skill_found == Contains(skill_lower, resume_lower)
    IN  [skill |-> skill_to_check,
         requirement_found |-> requirement_found,
         skill_found |-> skill_found,
         has_gap |-> requirement_found /\ ~skill_found,
         recommendation |-> IF requirement_found /\ ~skill_found
                            THEN "JD requires skill but resume doesn't mention it"
                            ELSE Nil]

\* the get_cold_email tool
GetColdEmail(application_id, contact_type, outcome) ==
    /\ call = NoCall
    /\ call' =
         IF outcome = "connect_error"
         THEN [op |-> "get_cold_email",
               args |-> [application_id |-> application_id, contact_type |-> contact_type],
               db |-> outcome, raised |-> TRUE]
         ELSE [op |-> "get_cold_email",
               args |-> [application_id |-> application_id, contact_type |-> contact_type],
               db |-> outcome, raised |-> FALSE,
               resume_data |-> get_tailored_resume(application_id, outcome),
               ret |-> get_cold_email(get_tailored_resume(application_id, outcome),
                                      contact_type)]
    /\ UNCHANGED <<airtable, pg, ctx, vectors, discord>>

\* the check_skill_match tool; None.lower() raises when the generic resume's
\* full_text is NULL
CheckSkillMatch(job_description, skill_to_check, application_id, outcome) ==
    /\ call = NoCall
    /\ call' =
         IF \/ outcome = "connect_error"
            \/ SkillResumeText(application_id, outcome) = None
         THEN [op |-> "check_skill_match",
               args |-> [job_description |-> job_description,
                         skill_to_check |-> skill_to_check,
                         application_id |-> application_id],
               db |-> outcome, raised |-> TRUE]
         ELSE [op |-> "check_skill_match",
               args |-> [job_description |-> job_description,
                         skill_to_check |-> skill_to_check,
                         application_id |-> application_id],
               db |-> outcome, raised |-> FALSE,
               resume_text |-> SkillResumeText(application_id, outcome),
               ret |-> check_skill_match(job_description, skill_to_check,
                                         SkillResumeText(application_id, outcome))]
    /\ UNCHANGED <<airtable, pg, ctx, vectors, discord>>

----------------------------------------------------------------------------
(* tools/airtable.py: contact with its linked job *)

\* outcome of one HTTP request to Airtable for a record that exists
HttpOutcomes == {"ok", "status_error", "network_error"}

ContactIds == {"rec1", "recMissing"}

\* Resume_Postgres_ID values; None is an absent field
LinkValues == {None, <<>>, <<"1">>, <<" ", "1">>, <<"2">>, <<"0">>, <<"x">>}

JobDescriptions == {<<>>, <<"E", "P", "I", "C">>, <<"s", "q", "l">>}

\* Contact_Type "" stands for an absent field too: the adapter reads it with default ""
ContactRecords ==
    [Contact_Type : {"hiring_manager", "recruiter", "team_member", ""},
     Job_Application : {<<>>, <<"job1">>}]

JobRecords == [Full_Description : JobDescriptions, Resume_Postgres_ID : LinkValues]

\* an empty dict
EmptyDict == <<>>

\* d.get(k, default)
Get(d, k, default) == IF k \in DOMAIN d THEN d[k] ELSE default

\* get_contact_with_job: contact_http and job_http are the outcomes of its two requests
get_contact_with_job(contact_id, contact_http, job_http) ==
    IF contact_id \notin DOMAIN airtable.contacts
    THEN [success |-> FALSE, error |-> <<"Contact not found: ", "NOT_FOUND">>]
    ELSE IF contact_http = "status_error"
    THEN [success |-> FALSE, error |-> <<"Contact not found: ", "RATE_LIMIT">>]
    ELSE LET contact_fields == airtable.contacts[contact_id]
             job_ids == contact_fields.Job_Application
             job_data ==
                 IF job_ids # <<>> /\ job_ids[1] \in DOMAIN airtable.jobs /\ job_http = "ok"
                 THEN [job_id |-> job_ids[1],
                       job_description |-> airtable.jobs[job_ids[1]].Full_Description,
                       resume_postgres_id |-> airtable.jobs[job_ids[1]].Resume_Postgres_ID]
                 ELSE EmptyDict
         IN  [success |-> TRUE,
              contact |-> [contact_id |-> contact_id,
                           contact_type |-> contact_fields.Contact_Type],
              job |-> job_data]

\* whether get_contact_with_job raises: a request that fails below HTTP
ContactLookupRaises(contact_id, contact_http, job_http) ==
    \/ contact_http = "network_error"
    \/ /\ contact_id \in DOMAIN airtable.contacts
       /\ contact_http = "ok"
       /\ airtable.contacts[contact_id].Job_Application # <<>>
       /\ job_http = "network_error"

----------------------------------------------------------------------------
(* int() of a string *)

Digits == <<"0", "1", "2", "3", "4", "5", "6", "7", "8", "9">>
IsDigit(c) == \E i \in 1..10 : Digits[i] = c
DigitValue(c) == (CHOOSE i \in 1..10 : Digits[i] = c) - 1

RECURSIVE DigitsValue(_)
DigitsValue(s) ==
    IF s = <<>> THEN 0
    ELSE 10 * DigitsValue(SubSeq(s, 1, Len(s) - 1)) + DigitValue(s[Len(s)])

\* int(s): surrounding whitespace and one sign are accepted; anything else is ValueError
ParsesAsInt(s) ==
    LET t == StripChars(s, Whitespace)
        body == IF t # <<>> /\ t[1] \in {"+", "-"} THEN Tail(t) ELSE t
    IN  body # <<>> /\ \A i \in 1..Len(body) : IsDigit(body[i])

IntOf(s) ==
    LET t == StripChars(s, Whitespace)
        body == IF t # <<>> /\ t[1] \in {"+", "-"} THEN Tail(t) ELSE t
    IN  IF t # <<>> /\ t[1] = "-" THEN 0 - DigitsValue(body) ELSE DigitsValue(body)

----------------------------------------------------------------------------
(* server.py: get_outreach_context *)

Invocations == {1, 2}

\* the outcomes of the requests an invocation has made; Nil for a request not made
NoneSeen == [contact_http |-> Nil, job_http |-> Nil, cold_email_db |-> Nil, skill_db |-> Nil]

Idle == [pc |-> "idle", contact_id |-> "", contact_job |-> EmptyDict,
         cold_email_data |-> EmptyDict, store_lookups |-> 0, skill_checks |-> 0,
         ret |-> EmptyDict, seen |-> NoneSeen, resume_text |-> None]

DefaultColdEmailData ==
    [cold_email |-> None, resume_context |-> None, fallback_used |-> TRUE,
     source_field |-> Nil]

\* whether get_contact_with_job goes on to request the linked job
JobRequested(contact_id, contact_http) ==
    /\ contact_id \in DOMAIN airtable.contacts
    /\ contact_http = "ok"
    /\ airtable.contacts[contact_id].Job_Application # <<>>

\* the invocation's locals once the lookup was called
Called(c, contact_id, contact_http, job_http) ==
    [c EXCEPT !.contact_id = contact_id,
              !.seen.contact_http = contact_http,
              !.seen.job_http = IF JobRequested(contact_id, contact_http)
                                THEN job_http ELSE Nil]

\* the failure return with a fixed message instead of the adapter's
CtxLookup_DefaultError(p, contact_id, contact_http, job_http) ==
    /\ ctx[p].pc = "idle"
    /\ LET contact_job == get_contact_with_job(contact_id, contact_http, job_http)
           called == Called(ctx[p], contact_id, contact_http, job_http)
       IN  ctx' = [ctx EXCEPT ![p] =
             IF ContactLookupRaises(contact_id, contact_http, job_http)
             THEN [called EXCEPT !.pc = "raised"]
             ELSE IF ~Get(contact_job, "success", FALSE)
             THEN [called EXCEPT !.pc = "done",
                                 !.contact_job = contact_job,
                                 !.ret = [success |-> FALSE,
                                          error |-> <<"Failed to fetch contact">>,
                                          contact |-> None,
                                          job |-> None]]
             ELSE [called EXCEPT !.pc = "cold_email", !.contact_job = contact_job]]
    /\ UNCHANGED <<call, airtable, pg, vectors, discord>>

\* Step 1 on the locals c of one invocation: the contact lookup, and the
\* failure return
LookupStep(c, contact_id, contact_http, job_http) ==
    LET contact_job == get_contact_with_job(contact_id, contact_http, job_http)
        called == Called(c, contact_id, contact_http, job_http)
    IN  IF ContactLookupRaises(contact_id, contact_http, job_http)
        THEN [called EXCEPT !.pc = "raised"]
        ELSE IF ~Get(contact_job, "success", FALSE)
        THEN [called EXCEPT !.pc = "done",
                            !.contact_job = contact_job,
                            !.ret = [success |-> FALSE,
                                     error |-> Get(contact_job, "error",
                                                   <<"Failed to fetch contact">>),
                                     contact |-> None,
                                     job |-> None]]
        ELSE [called EXCEPT !.pc = "cold_email", !.contact_job = contact_job]

CtxLookup(p, contact_id, contact_http, job_http) ==
    /\ ctx[p].pc = "idle"
    /\ ctx' = [ctx EXCEPT ![p] = LookupStep(ctx[p], contact_id, contact_http, job_http)]
    /\ UNCHANGED <<call, airtable, pg, vectors, discord>>

\* Step 2 on the locals c: cold email / resume context when the job carries a
\* resume link
ColdEmailStep(c, outcome) ==
    LET contact == Get(c.contact_job, "contact", EmptyDict)
        job == Get(c.contact_job, "job", EmptyDict)
        contact_type == Get(contact, "contact_type", "team_member")
        resume_postgres_id == Get(job, "resume_postgres_id", None)
    IN  IF ~Truthy(resume_postgres_id)
        THEN [c EXCEPT !.pc = "skill", !.cold_email_data = DefaultColdEmailData]
        ELSE IF ~ParsesAsInt(resume_postgres_id)
        THEN [c EXCEPT !.pc = "skill",
                       !.cold_email_data =
                           [cold_email |-> None, resume_context |-> None,
                            fallback_used |-> TRUE, source_field |-> Nil,
                            note |-> <<"Invalid resume_postgres_id: ",
                                       resume_postgres_id>>]]
        ELSE IF outcome = "connect_error"
        THEN [c EXCEPT !.pc = "raised", !.store_lookups = @ + 1,
                       !.seen.cold_email_db = outcome]
        ELSE [c EXCEPT !.pc = "skill", !.store_lookups = @ + 1,
                       !.seen.cold_email_db = outcome,
                       !.cold_email_data =
                           get_cold_email(
                               get_tailored_resume(IntOf(resume_postgres_id), outcome),
                               contact_type)]

\* the step reading the contact and job the first invocation fetched
CtxColdEmail_SharedLookup(p, outcome) ==
    /\ ctx[p].pc = "cold_email"
    /\ ctx' = [ctx EXCEPT ![p] =
                  ColdEmailStep([ctx[p] EXCEPT !.contact_job =
                                    IF ctx[1].contact_job # EmptyDict
                                    THEN ctx[1].contact_job ELSE @],
                                outcome)]
    /\ UNCHANGED <<call, airtable, pg, vectors, discord>>

CtxColdEmail(p, outcome) ==
    /\ ctx[p].pc = "cold_email"
    /\ ctx' = [ctx EXCEPT ![p] = ColdEmailStep(ctx[p], outcome)]
    /\ UNCHANGED <<call, airtable, pg, vectors, discord>>

\* Step 3 on the locals c: Epic gap detection, and the success return
SkillStep(c, outcome) ==
    LET contact == Get(c.contact_job, "contact", EmptyDict)
        job == Get(c.contact_job, "job", EmptyDict)
        resume_postgres_id == Get(job, "resume_postgres_id", None)
        job_description == Get(job, "job_description", <<>>)
        cold_email_data == c.cold_email_data
        application_id ==
            IF Truthy(resume_postgres_id) /\ ParsesAsInt(resume_postgres_id)
            THEN IntOf(resume_postgres_id) ELSE NoApp
        Return(epic_check) ==
            [success |-> TRUE,
             contact |-> contact,
             job |-> job,
             cold_email |-> Get(cold_email_data, "cold_email", None),
             resume_context |-> Get(cold_email_data, "resume_context", None),
             fallback_used |-> Get(cold_email_data, "fallback_used", TRUE),
             source_field |-> Get(cold_email_data, "source_field", Nil),
             has_epic_gap |-> Get(epic_check, "has_gap", FALSE),
             epic_recommendation |-> Get(epic_check, "recommendation", Nil)]
    IN  IF ~Truthy(job_description)
        THEN [c EXCEPT !.pc = "done", !.ret = Return([has_gap |-> FALSE])]
        ELSE IF \/ outcome = "connect_error"
                \/ SkillResumeText(application_id, outcome) = None
        THEN [c EXCEPT !.pc = "raised", !.store_lookups = @ + 1,
                       !.skill_checks = @ + 1,
                       !.seen.skill_db = outcome]
        ELSE [c EXCEPT !.pc = "done", !.store_lookups = @ + 1,
                       !.skill_checks = @ + 1,
                       !.seen.skill_db = outcome,
                       !.resume_text = SkillResumeText(application_id, outcome),
                       !.ret = Return(check_skill_match(
                                   job_description, Epic,
                                   SkillResumeText(application_id, outcome)))]

\* the step writing the contact's type back to the store
CtxSkill_WritesBack(p, outcome) ==
    /\ ctx[p].pc = "skill"
    /\ ctx' = [ctx EXCEPT ![p] = SkillStep(ctx[p], outcome)]
    /\ airtable' = [airtable EXCEPT !.contacts[ctx[p].contact_id].Contact_Type =
                                        "team_member"]
    /\ UNCHANGED <<call, pg, vectors, discord>>

CtxSkill(p, outcome) ==
    /\ ctx[p].pc = "skill"
    /\ ctx' = [ctx EXCEPT ![p] = SkillStep(ctx[p], outcome)]
    /\ UNCHANGED <<call, airtable, pg, vectors, discord>>

\* get_outreach_context run from start to return on its own, its requests
\* meeting the outcomes in seen
ResolveAlone(contact_id, seen) ==
    LET looked == LookupStep(Idle, contact_id, seen.contact_http, seen.job_http)
        mailed == IF looked.pc = "cold_email"
                  THEN ColdEmailStep(looked, seen.cold_email_db) ELSE looked
    IN  IF mailed.pc = "skill" THEN SkillStep(mailed, seen.skill_db) ELSE mailed

----------------------------------------------------------------------------
(* The webhook action get_outreach_context: server.py _route_action *)

\* contact_id of the webhook's params; "" stands for a missing one too
RouteContactIds == ContactIds \cup {""}

\* contact_id check and the lookup; a failed lookup is returned as it came
RouteLookupStep(c, contact_id, contact_http, job_http) ==
    LET contact_job == get_contact_with_job(contact_id, contact_http, job_http)
        called == Called(c, contact_id, contact_http, job_http)
    IN  IF contact_id = ""
        THEN [c EXCEPT !.pc = "done",
                       !.ret = [success |-> FALSE,
                                error |-> <<"contact_id is required">>]]
        ELSE IF ContactLookupRaises(contact_id, contact_http, job_http)
        THEN [called EXCEPT !.pc = "raised"]
        ELSE IF ~Get(contact_job, "success", FALSE)
        THEN [called EXCEPT !.pc = "done",
                            !.contact_job = contact_job,
                            !.ret = contact_job]
        ELSE [called EXCEPT !.pc = "cold_email", !.contact_job = contact_job]

\* cold email / resume context; a link that is no integer is passed over
RouteColdEmailStep(c, outcome) ==
    LET contact == Get(c.contact_job, "contact", EmptyDict)
        job == Get(c.contact_job, "job", EmptyDict)
        contact_type == Get(contact, "contact_type", "team_member")
        resume_postgres_id == Get(job, "resume_postgres_id", None)
    IN  IF ~Truthy(resume_postgres_id) \/ ~ParsesAsInt(resume_postgres_id)
        THEN [c EXCEPT !.pc = "skill", !.cold_email_data = DefaultColdEmailData]
        ELSE IF outcome = "connect_error"
        THEN [c EXCEPT !.pc = "raised", !.store_lookups = @ + 1,
                       !.seen.cold_email_db = outcome]
        ELSE [c EXCEPT !.pc = "skill", !.store_lookups = @ + 1,
                       !.seen.cold_email_db = outcome,
                       !.cold_email_data =
                           get_cold_email(
                               get_tailored_resume(IntOf(resume_postgres_id), outcome),
                               contact_type)]

\* Epic check with app_id = int(link) if link else None, without it when
\* int() fails; then the six-field result
RouteSkillStep(c, outcome) ==
    LET contact == Get(c.contact_job, "contact", EmptyDict)
        job == Get(c.contact_job, "job", EmptyDict)
        resume_postgres_id == Get(job, "resume_postgres_id", None)
        job_description == Get(job, "job_description", <<>>)
        cold_email_data == c.cold_email_data
        app_id ==
            IF Truthy(resume_postgres_id) /\ ParsesAsInt(resume_postgres_id)
            THEN IntOf(resume_postgres_id) ELSE NoApp
        Return(epic_check) ==
            [success |-> TRUE,
             contact |-> contact,
             job |-> job,
             cold_email |-> Get(cold_email_data, "cold_email", None),
             resume_context |-> Get(cold_email_data, "resume_context", None),
             has_epic_gap |-> Get(epic_check, "has_gap", FALSE)]
    IN  IF ~Truthy(job_description)
        THEN [c EXCEPT !.pc = "done", !.ret = Return([has_gap |-> FALSE])]
        ELSE IF \/ outcome = "connect_error"
                \/ SkillResumeText(app_id, outcome) = None
        THEN [c EXCEPT !.pc = "raised", !.store_lookups = @ + 1,
                       !.skill_checks = @ + 1,
                       !.seen.skill_db = outcome]
        ELSE [c EXCEPT !.pc = "done", !.store_lookups = @ + 1,
                       !.skill_checks = @ + 1,
                       !.seen.skill_db = outcome,
                       !.resume_text = SkillResumeText(app_id, outcome),
                       !.ret = Return(check_skill_match(
                                   job_description, Epic,
                                   SkillResumeText(app_id, outcome)))]

RouteLookup(p, contact_id, contact_http, job_http) ==
    /\ ctx[p].pc = "idle"
    /\ ctx' = [ctx EXCEPT ![p] = RouteLookupStep(ctx[p], contact_id, contact_http, job_http)]
    /\ UNCHANGED <<call, airtable, pg, vectors, discord>>

RouteColdEmail(p, outcome) ==
    /\ ctx[p].pc = "cold_email"
    /\ ctx' = [ctx EXCEPT ![p] = RouteColdEmailStep(ctx[p], outcome)]
    /\ UNCHANGED <<call, airtable, pg, vectors, discord>>

\* the step leaving the Epic check out: has_epic_gap stays at its default
RouteSkill_NoCheck(p, outcome) ==
    /\ ctx[p].pc = "skill"
    /\ ctx' = [ctx EXCEPT ![p] =
                  LET stepped == RouteSkillStep(ctx[p], outcome)
                  IN  IF stepped.pc = "done"
                      THEN [stepped EXCEPT !.ret.has_epic_gap = FALSE]
                      ELSE stepped]
    /\ UNCHANGED <<call, airtable, pg, vectors, discord>>

RouteSkill(p, outcome) ==
    /\ ctx[p].pc = "skill"
    /\ ctx' = [ctx EXCEPT ![p] = RouteSkillStep(ctx[p], outcome)]
    /\ UNCHANGED <<call, airtable, pg, vectors, discord>>

----------------------------------------------------------------------------
(* The Airtable store operations: airtable.py and their tools in server.py *)

\* bound: contact records the Contacts table may hold
MaxContacts == 2
\* bound: contacts in one save_contacts batch
MaxBatch == 2
\* bound: store tool calls in one behaviour
MaxOps == 3

OutreachStatuses == {"Ready", "Drafted", "Approved", "Sent", "Skipped"}
JobStatuses == {"In progress", "Todo"}
StoreJobIds == {"job1", "jobMissing"}
\* the record ids Airtable hands out, in order of creation
RecordIds == <<"rec1", "rec2", "rec3", "rec4">>
StoreContactIds == {RecordIds[i] : i \in 1..MaxContacts}
ContactInputs == {[name |-> "n1"], [name |-> "n2", contact_type |-> "recruiter"]}
Batches == UNION {[1..k -> ContactInputs] : k \in 0..MaxBatch}
Drafts == {<<"a">>}
ResponseText == "RESPONSE"

\* the store tool calls made so far
OpsDone == Get(call, "n", 0)

\* what a store call hands back: the store after it, whether it raised, its result
StoreResult(store, raised, ret) == [store |-> store, raised |-> raised, ret |-> ret]

\* get_jobs_needing_contacts: the ids of the records matching the filter
\* formula (the order of the list is Airtable's and is not modelled)
get_jobs_needing_contacts(store, status, http) ==
    IF http = "network_error" THEN StoreResult(store, TRUE, EmptyDict)
    ELSE IF http # "ok"
    THEN StoreResult(store, FALSE,
             [success |-> FALSE,
              error |-> <<"Airtable API error: ", ResponseText>>,
              jobs |-> {}])
    ELSE LET jobs == {j \in DOMAIN store.jobs :
                         /\ store.jobs[j].Status = status
                         /\ store.jobs[j].Job_Link # <<>>
                         /\ ~store.jobs[j].Contacts_Found}
         IN  StoreResult(store, FALSE,
                 [success |-> TRUE,
                  status_filter |-> status,
                  total_found |-> Cardinality(jobs),
                  jobs |-> jobs])

\* mark_contacts_found: update_job(job_id, {"Contacts_Found": True})
mark_contacts_found(store, job_id, http) ==
    IF http = "network_error" THEN StoreResult(store, TRUE, EmptyDict)
    ELSE IF http = "ok" /\ job_id \in DOMAIN store.jobs
    THEN StoreResult([store EXCEPT !.jobs[job_id].Contacts_Found = TRUE], FALSE,
             [success |-> TRUE, job_id |-> job_id])
    ELSE StoreResult(store, FALSE,
             [success |-> FALSE, error |-> <<"Update failed: ", ResponseText>>])

\* the fields save_contacts posts for one contact
NewContactFields(job_id, contact) ==
    [Contact_Type |-> Get(contact, "contact_type", "team_member"),
     Job_Application |-> <<job_id>>,
     Outreach_Status |-> "Ready",
     Message_Draft |-> None,
     Message_Final |-> None]

RECURSIVE SaveLoop(_, _, _, _, _, _, _)
\* the loop of save_contacts from contact i on; Airtable creates the record
\* only when the request succeeds and the linked job exists
SaveLoop(store, job_id, contacts, outcomes, i, created_ids, errors) ==
    IF i > Len(contacts)
    THEN StoreResult(store, FALSE,
             [success |-> Len(errors) = 0,
              created_count |-> Len(created_ids),
              created_ids |-> created_ids,
              errors |-> errors])
    ELSE IF outcomes[i] = "network_error"
    THEN StoreResult(store, TRUE, EmptyDict)
    ELSE IF outcomes[i] = "ok" /\ job_id \in DOMAIN store.jobs
    THEN LET id == RecordIds[Cardinality(DOMAIN store.contacts) + 1]
             created == [c \in DOMAIN store.contacts \cup {id} |->
                            IF c = id THEN NewContactFields(job_id, contacts[i])
                            ELSE store.contacts[c]]
         IN  SaveLoop([store EXCEPT !.contacts = created], job_id, contacts, outcomes,
                      i + 1, Append(created_ids, id), errors)
    ELSE SaveLoop(store, job_id, contacts, outcomes, i + 1, created_ids,
                  Append(errors, [contact |-> Get(contacts[i], "name", Nil),
                                  error |-> ResponseText]))

save_contacts(store, job_id, contacts, outcomes) ==
    SaveLoop(store, job_id, contacts, outcomes, 1, <<>>, <<>>)

\* update_contact_status: one PATCH of Outreach_Status and the additional
\* fields; the status is written as given
update_contact_status(store, contact_id, status, additional_fields, http) ==
    IF http = "network_error" THEN StoreResult(store, TRUE, EmptyDict)
    ELSE IF http = "ok" /\ contact_id \in DOMAIN store.contacts
    THEN LET old == store.contacts[contact_id]
             new == [f \in DOMAIN old |->
                        IF f \in DOMAIN additional_fields THEN additional_fields[f]
                        ELSE IF f = "Outreach_Status" THEN status
                        ELSE old[f]]
         IN  StoreResult([store EXCEPT !.contacts[contact_id] = new], FALSE,
                 [success |-> TRUE, contact_id |-> contact_id, new_status |-> status])
    ELSE StoreResult(store, FALSE,
             [success |-> FALSE, error |-> <<"Update failed: ", ResponseText>>])

save_message_draft(store, contact_id, message_draft, http) ==
    update_contact_status(store, contact_id, "Drafted",
                          [Message_Draft |-> message_draft], http)

mark_contact_approved(store, contact_id, final_message, http) ==
    update_contact_status(store, contact_id, "Approved",
                          [Message_Final |-> final_message], http)

\* tool get_jobs_needing_contacts
GetJobsNeedingContacts(status, http) ==
    /\ OpsDone < MaxOps
    /\ LET r == get_jobs_needing_contacts(airtable, status, http)
       IN  call' = [op |-> "get_jobs_needing_contacts",
                    n |-> OpsDone + 1,
                    args |-> [status |-> status],
                    raised |-> r.raised,
                    ret |-> r.ret]
    /\ UNCHANGED <<airtable, pg, ctx, vectors, discord>>

\* tool save_contacts_to_airtable: save the batch, then mark the job when the
\* batch reported success; the batch's result is what is returned
SaveContactsToAirtable(job_id, contacts, outcomes, mark_http) ==
    /\ OpsDone < MaxOps
    /\ Cardinality(DOMAIN airtable.contacts) + Len(contacts) <= MaxContacts
    /\ LET result == save_contacts(airtable, job_id, contacts, outcomes)
           marked == IF ~result.raised /\ result.ret.success
                     THEN mark_contacts_found(result.store, job_id, mark_http)
                     ELSE StoreResult(result.store, FALSE, EmptyDict)
           raised == result.raised \/ marked.raised
       IN  /\ airtable' = marked.store
           /\ call' = [op |-> "save_contacts_to_airtable",
                       n |-> OpsDone + 1,
                       args |-> [job_id |-> job_id, contacts |-> contacts],
                       raised |-> raised,
                       ret |-> IF raised THEN EmptyDict ELSE result.ret]
    /\ UNCHANGED <<pg, ctx, vectors, discord>>

\* webhook action save_contacts_to_airtable: job_id and a non-empty contacts
\* list are required before anything is stored
WebhookSaveContacts(job_id, contacts, outcomes, mark_http) ==
    /\ OpsDone < MaxOps
    /\ Cardinality(DOMAIN airtable.contacts) + Len(contacts) <= MaxContacts
    /\ IF job_id = ""
       THEN /\ call' = [op |-> "webhook_save_contacts_to_airtable",
                        n |-> OpsDone + 1,
                        args |-> [job_id |-> job_id, contacts |-> contacts],
                        raised |-> FALSE,
                        ret |-> [success |-> FALSE, error |-> "job_id is required"]]
            /\ airtable' = airtable
       ELSE IF contacts = <<>>
       THEN /\ call' = [op |-> "webhook_save_contacts_to_airtable",
                        n |-> OpsDone + 1,
                        args |-> [job_id |-> job_id, contacts |-> contacts],
                        raised |-> FALSE,
                        ret |-> [success |-> FALSE, error |-> "contacts list is required"]]
            /\ airtable' = airtable
       ELSE LET result == save_contacts(airtable, job_id, contacts, outcomes)
                marked == IF ~result.raised /\ result.ret.success
                          THEN mark_contacts_found(result.store, job_id, mark_http)
                          ELSE StoreResult(result.store, FALSE, EmptyDict)
                raised == result.raised \/ marked.raised
            IN  /\ airtable' = marked.store
                /\ call' = [op |-> "webhook_save_contacts_to_airtable",
                            n |-> OpsDone + 1,
                            args |-> [job_id |-> job_id, contacts |-> contacts],
                            raised |-> raised,
                            ret |-> IF raised THEN EmptyDict ELSE result.ret]
    /\ UNCHANGED <<pg, ctx, vectors, discord>>

\* tool update_contact_status (no additional fields)
UpdateContactStatus(contact_id, status, http) ==
    /\ OpsDone < MaxOps
    /\ LET r == update_contact_status(airtable, contact_id, status, EmptyDict, http)
       IN  /\ airtable' = r.store
           /\ call' = [op |-> "update_contact_status",
                       n |-> OpsDone + 1,
                       args |-> [contact_id |-> contact_id, status |-> status],
                       raised |-> r.raised,
                       ret |-> r.ret]
    /\ UNCHANGED <<pg, ctx, vectors, discord>>

\* tool save_message_draft
SaveMessageDraft(contact_id, message, http) ==
    /\ OpsDone < MaxOps
    /\ LET r == save_message_draft(airtable, contact_id, message, http)
       IN  /\ airtable' = r.store
           /\ call' = [op |-> "save_message_draft",
                       n |-> OpsDone + 1,
                       args |-> [contact_id |-> contact_id, message |-> message],
                       raised |-> r.raised,
                       ret |-> r.ret]
    /\ UNCHANGED <<pg, ctx, vectors, discord>>

\* tool mark_contact_approved: the adapter's result is dropped and the fixed
\* success record is returned
MarkContactApproved(contact_id, final_message, http) ==
    /\ OpsDone < MaxOps
    /\ LET r == mark_contact_approved(airtable, contact_id, final_message, http)
       IN  /\ airtable' = r.store
           /\ call' = [op |-> "mark_contact_approved",
                       n |-> OpsDone + 1,
                       args |-> [contact_id |-> contact_id,
                                 final_message |-> final_message],
                       raised |-> r.raised,
                       updated |-> ~r.raised /\ r.ret.success,
                       ret |-> IF r.raised THEN EmptyDict
                               ELSE [success |-> TRUE,
                                     action |-> "approved",
                                     linkedin_url |-> "URL",
                                     message |-> final_message,
                                     instruction |-> "INSTRUCTION"]]
    /\ UNCHANGED <<pg, ctx, vectors, discord>>

----------------------------------------------------------------------------
(* Contact discovery (apollo.py, apify_sourcing.py, network_mining.py) *)

\* bound: results one category search returns
MaxPeople == 1
\* limit: the default of every discovery operation
DefaultLimit == 5
\* urls of search results; "x" is not a LinkedIn profile url
ResultUrls == {"u1", "u2", "x"}
PeopleLists == UNION {[1..k -> ResultUrls] : k \in 0..MaxPeople}

\* one category search: the people of a 200 answer, or none when the search
\* fails (the failure is logged and the loop goes on)
ApolloSearches ==
    {[outcome |-> "ok", people |-> people] : people \in PeopleLists}
    \cup {[outcome |-> o, people |-> <<>>] : o \in {"status_error", "network_error"}}
\* Apify skips a category whose generated title list is empty
ApifySearches ==
    {[outcome |-> "ok", people |-> people] : people \in PeopleLists}
    \cup {[outcome |-> o, people |-> <<>>] : o \in {"no_titles", "network_error"}}

\* the (contact_type, priority) pairs each operation loops over
ApolloCategories ==
    <<[contact_type |-> "hiring_manager", priority |-> 1],
      [contact_type |-> "recruiter", priority |-> 2],
      [contact_type |-> "team_member", priority |-> 3]>>
ApifyCategories ==
    <<[contact_type |-> "hiring_manager", priority |-> 1],
      [contact_type |-> "recruiter", priority |-> 2],
      [contact_type |-> "peer", priority |-> 3]>>

\* the contact dict built for one search result
DiscoveredContact(category, url, contact_source) ==
    [name |-> "n",
     linkedin_url |-> url,
     contact_type |-> category.contact_type,
     contact_source |-> contact_source,
     connection_degree |-> "2nd",
     priority |-> category.priority]

\* _parse_search_result: results that are not LinkedIn profiles are dropped
ParsedResults(people) == SelectSeq(people, LAMBDA url : url # "x")

RECURSIVE DedupeByUrl(_, _)
\* the deduplication loop: the first contact of each linkedin_url is kept
DedupeByUrl(contacts, seen) ==
    IF contacts = <<>> THEN <<>>
    ELSE IF Head(contacts).linkedin_url \in seen
    THEN DedupeByUrl(Tail(contacts), seen)
    ELSE <<Head(contacts)>> \o
         DedupeByUrl(Tail(contacts), seen \cup {Head(contacts).linkedin_url})

\* all_contacts after the loop over the categories
AllContacts(categories, searches, contact_source, parsed) ==
    LET Of(i) == LET people == IF parsed THEN ParsedResults(searches[i].people)
                                ELSE searches[i].people
                 IN  [k \in 1..Len(people) |->
                         DiscoveredContact(categories[i], people[k], contact_source)]
    IN  Of(1) \o Of(2) \o Of(3)

\* ApolloTools.find_contacts: the categories are searched in priority order,
\* so the sort by priority leaves the deduplicated list as it is
apollo_find_contacts(searches, limit) ==
    [success |-> TRUE,
     contacts |-> Prefix(DedupeByUrl(AllContacts(ApolloCategories, searches,
                                                 "apollo", FALSE), {}), limit)]

\* ApifySourcingTools.discover_contacts_for_job and find_contacts, from the
\* X-Ray searches on (job fetched, company and position present)
apify_find_contacts(searches, limit) ==
    [success |-> TRUE,
     contacts |-> Prefix(DedupeByUrl(AllContacts(ApifyCategories, searches,
                                                 "apify_xray", TRUE), {}), limit * 3)]

\* NetworkMiningTools.analyze_network_overlap: one insider per matching
\* connection; the dict carries no contact_type
analyze_network_overlap(matches) ==
    [success |-> TRUE,
     contacts |-> [k \in 1..matches |->
                      [contact_name |-> "n",
                       connection_degree |-> "1st",
                       contact_source |-> "csv_import"]]]

DiscoveryOps ==
    {"find_company_contacts", "discover_contacts_for_job", "find_contacts_apify",
     "analyze_network_overlap"}

FindCompanyContacts(searches) ==
    /\ call = NoCall
    /\ call' = [op |-> "find_company_contacts",
                args |-> [searches |-> searches],
                raised |-> FALSE,
                ret |-> apollo_find_contacts(searches, DefaultLimit)]
    /\ UNCHANGED <<airtable, pg, ctx, vectors, discord>>

DiscoverContactsForJob(searches) ==
    /\ call = NoCall
    /\ call' = [op |-> "discover_contacts_for_job",
                args |-> [searches |-> searches],
                raised |-> FALSE,
                ret |-> apify_find_contacts(searches, DefaultLimit)]
    /\ UNCHANGED <<airtable, pg, ctx, vectors, discord>>

FindContactsApify(searches) ==
    /\ call = NoCall
    /\ call' = [op |-> "find_contacts_apify",
                args |-> [searches |-> searches],
                raised |-> FALSE,
                ret |-> apify_find_contacts(searches, DefaultLimit)]
    /\ UNCHANGED <<airtable, pg, ctx, vectors, discord>>

AnalyzeNetworkOverlap(matches) ==
    /\ call = NoCall
    /\ call' = [op |-> "analyze_network_overlap",
                args |-> [matches |-> matches],
                raised |-> FALSE,
                ret |-> analyze_network_overlap(matches)]
    /\ UNCHANGED <<airtable, pg, ctx, vectors, discord>>

\* the contacts a discovery operation returned are handed to save_contacts
SaveDiscovered(job_id, outcomes) ==
    /\ call.op \in DiscoveryOps
    /\ LET result == save_contacts(airtable, job_id, call.ret.contacts, outcomes)
       IN  /\ airtable' = result.store
           /\ call' = [op |-> "save_contacts",
                       args |-> [job_id |-> job_id, contacts |-> call.ret.contacts,
                                 discovered_by |-> call.op],
                       raised |-> result.raised,
                       ret |-> IF result.raised THEN EmptyDict ELSE result.ret]
    /\ UNCHANGED <<pg, ctx, vectors, discord>>

----------------------------------------------------------------------------
(* Discord approval thread (discord_tools.py) *)

\* bound: messages posted in the thread
MaxMessages == 2
\* bound: wait_for_response calls on the thread
MaxWaits == 2
\* bound: largest timeout_seconds
MaxTimeout == 2
\* params = {"limit": 10}
FetchLimit == 10
\* asyncio.sleep(2)
PollSeconds == 2
\* last_message_id = None
NoMessageId == 0

\* no Discord thread is in use
NoDiscord == [op |-> "none"]

\* what the user types in the thread
ReplyTexts ==
    {<<"a", "p", "p", "r", "o", "v", "e">>,
     <<"S", "k", "i", "p", " ">>,
     <<"e", "d", "i", "t">>,
     <<"E", "d", "i", "t", " ", "x">>,
     <<"h", "i">>}
\* a draft or update the bot posts
BotText == <<"d">>
MakeItBetter == <<"make it better">>
NoAction == [action |-> "none"]

\* the reply parser of wait_for_response: content.lower().strip(), then
\* approve / skip / edit <instruction>
parse_reply(raw) ==
    LET content == StripChars(Lower(raw), Whitespace)
    IN  IF content = <<"a", "p", "p", "r", "o", "v", "e">>
        THEN [success |-> TRUE, action |-> "approve"]
        ELSE IF content = <<"s", "k", "i", "p">>
        THEN [success |-> TRUE, action |-> "skip"]
        ELSE IF Prefix(content, 4) = <<"e", "d", "i", "t">>
        THEN [success |-> TRUE, action |-> "edit",
              instruction |-> Or(StripChars(SubSeq(content, 5, Len(content)), Whitespace),
                                 MakeItBetter)]
        ELSE NoAction

\* GET /channels/{thread_id}/messages: at most limit messages, the newest
\* ones without after, those following after otherwise; reversed() then
\* gives them oldest first.  A message's id is its position in the thread.
FetchedIds(messages, after, limit) ==
    IF after = NoMessageId
    THEN {i \in 1..Len(messages) : i > Len(messages) - limit}
    ELSE {i \in 1..Len(messages) : i > after /\ i <= after + limit}

RECURSIVE ScanReplies(_, _, _, _)
\* for msg in reversed(messages), from id i on: bot messages are skipped,
\* every other message moves last_message_id, the first recognised one returns
ScanReplies(messages, ids, i, last_message_id) ==
    IF i > Len(messages)
    THEN [returned |-> FALSE, last_message_id |-> last_message_id]
    ELSE IF i \notin ids \/ messages[i].bot
    THEN ScanReplies(messages, ids, i + 1, last_message_id)
    ELSE IF parse_reply(messages[i].content) # NoAction
    THEN [returned |-> TRUE, last_message_id |-> i,
          ret |-> parse_reply(messages[i].content)]
    ELSE ScanReplies(messages, ids, i + 1, i)

\* the thread after send_approval_request: the bot's draft is its first
\* message, and no wait is running
ThreadOpened ==
    [messages |-> <<[bot |-> TRUE, content |-> BotText]>>,
     clock |-> 0,
     waits |-> 0,
     consumed |-> <<>>,
     wait |-> [pc |-> "idle"]]

Waiting == discord.wait.pc \in {"loop", "fetch", "sleep"}

\* the user types a reply in the thread
UserReplies(content) ==
    /\ Len(discord.messages) <= MaxMessages
    /\ discord' = [discord EXCEPT !.messages = Append(@, [bot |-> FALSE, content |-> content])]
    /\ UNCHANGED <<call, airtable, pg, ctx, vectors>>

\* send_message: the bot posts a revised draft or an update
BotPosts ==
    /\ Len(discord.messages) <= MaxMessages
    /\ ~Waiting
    /\ discord' = [discord EXCEPT !.messages = Append(@, [bot |-> TRUE, content |-> BotText])]
    /\ UNCHANGED <<call, airtable, pg, ctx, vectors>>

\* wait_for_response is called: start_time and last_message_id are set
WaitStart(timeout_seconds) ==
    /\ ~Waiting
    /\ discord.waits < MaxWaits
    /\ discord' = [discord EXCEPT !.waits = @ + 1,
                                  !.wait = [pc |-> "loop",
                                            timeout_seconds |-> timeout_seconds,
                                            start_time |-> discord.clock,
                                            last_message_id |-> NoMessageId]]
    /\ UNCHANGED <<call, airtable, pg, ctx, vectors>>

\* the top of the loop: elapsed > timeout_seconds returns the timeout result
WaitCheckTimeout ==
    /\ discord.wait.pc = "loop"
    /\ discord' =
         IF discord.clock - discord.wait.start_time > discord.wait.timeout_seconds
         THEN [discord EXCEPT !.wait =
                  [pc |-> "returned", message_id |-> NoMessageId,
                   ret |-> [success |-> FALSE, action |-> "timeout"]]]
         ELSE [discord EXCEPT !.wait.pc = "fetch"]
    /\ UNCHANGED <<call, airtable, pg, ctx, vectors>>

\* one fetch of the thread's messages and the scan of what came back; a
\* transport failure of client.get is not caught
WaitFetch(http) ==
    /\ discord.wait.pc = "fetch"
    /\ discord' =
         IF http = "network_error" THEN [discord EXCEPT !.wait = [pc |-> "raised"]]
         ELSE IF http # "ok" THEN [discord EXCEPT !.wait.pc = "sleep"]
         ELSE LET scan == ScanReplies(discord.messages,
                                      FetchedIds(discord.messages,
                                                 discord.wait.last_message_id, FetchLimit),
                                      1, discord.wait.last_message_id)
              IN  IF scan.returned
                  THEN [discord EXCEPT !.consumed = Append(@, scan.last_message_id),
                                       !.wait = [pc |-> "returned",
                                                 message_id |-> scan.last_message_id,
                                                 ret |-> scan.ret]]
                  ELSE [discord EXCEPT !.wait.pc = "sleep",
                                       !.wait.last_message_id = scan.last_message_id]
    /\ UNCHANGED <<call, airtable, pg, ctx, vectors>>

\* await asyncio.sleep(2), then back to the top of the loop
WaitSleep ==
    /\ discord.wait.pc = "sleep"
    /\ discord' = [discord EXCEPT !.clock = @ + PollSeconds, !.wait.pc = "loop"]
    /\ UNCHANGED <<call, airtable, pg, ctx, vectors>>

----------------------------------------------------------------------------
(* VectorTools singleton (vectors.py) *)

\* bound: threads calling VectorTools()
MaxThreads == 3
Threads == 1..MaxThreads
\* _instance is None; instances are numbered from 1 in order of creation
NoInstance == 0
\* _lock is free
NoThread == 0
Loaded == "TextEmbedding"

\* VectorTools is not in use
NoVectors == [op |-> "none"]

\* the class attributes at import, and no thread inside VectorTools() yet
VectorsAtImport ==
    [_instance |-> NoInstance,
     _lock |-> NoThread,
     _model |-> Nil,
     created |-> 0,
     loads |-> 0,
     threads |-> [t \in Threads |-> [pc |-> "call", self |-> NoInstance]]]

At(t, pc) == vectors.threads[t].pc = pc
Goto(t, pc) == [vectors EXCEPT !.threads[t].pc = pc]

\* __new__: if cls._instance is None (outside the lock)
VtNewCheck(t) ==
    /\ At(t, "call")
    /\ vectors' = Goto(t, IF vectors._instance = NoInstance THEN "new_lock" ELSE "new_return")
    /\ UNCHANGED <<call, airtable, pg, ctx, discord>>

\* __new__: with cls._lock
VtNewLock(t) ==
    /\ At(t, "new_lock")
    /\ vectors._lock = NoThread
    /\ vectors' = [Goto(t, "new_recheck") EXCEPT !._lock = t]
    /\ UNCHANGED <<call, airtable, pg, ctx, discord>>

\* the step without the second check: whoever gets the lock creates
VtNewRecheck_NoRecheck(t) ==
    /\ At(t, "new_recheck")
    /\ vectors' = Goto(t, "new_create")
    /\ UNCHANGED <<call, airtable, pg, ctx, discord>>

\* __new__: if cls._instance is None (inside the lock)
VtNewRecheck(t) ==
    /\ At(t, "new_recheck")
    /\ vectors' = Goto(t, IF vectors._instance = NoInstance THEN "new_create" ELSE "new_unlock")
    /\ UNCHANGED <<call, airtable, pg, ctx, discord>>

\* __new__: cls._instance = super().__new__(cls)
VtNewCreate(t) ==
    /\ At(t, "new_create")
    /\ vectors' = [Goto(t, "new_unlock") EXCEPT !._instance = vectors.created + 1,
                                                !.created = @ + 1]
    /\ UNCHANGED <<call, airtable, pg, ctx, discord>>

\* __new__: leaving the with block
VtNewUnlock(t) ==
    /\ At(t, "new_unlock")
    /\ vectors' = [Goto(t, "new_return") EXCEPT !._lock = NoThread]
    /\ UNCHANGED <<call, airtable, pg, ctx, discord>>

\* __new__: return cls._instance
VtNewReturn(t) ==
    /\ At(t, "new_return")
    /\ vectors' = [Goto(t, "init") EXCEPT !.threads[t].self = vectors._instance]
    /\ UNCHANGED <<call, airtable, pg, ctx, discord>>

\* __init__: if VectorTools._model is None (outside the lock)
VtInitCheck(t) ==
    /\ At(t, "init")
    /\ vectors' = Goto(t, IF vectors._model = Nil THEN "init_lock" ELSE "constructed")
    /\ UNCHANGED <<call, airtable, pg, ctx, discord>>

\* __init__: with VectorTools._lock
VtInitLock(t) ==
    /\ At(t, "init_lock")
    /\ vectors._lock = NoThread
    /\ vectors' = [Goto(t, "init_recheck") EXCEPT !._lock = t]
    /\ UNCHANGED <<call, airtable, pg, ctx, discord>>

\* __init__: if VectorTools._model is None (inside the lock)
VtInitRecheck(t) ==
    /\ At(t, "init_recheck")
    /\ vectors' = Goto(t, IF vectors._model = Nil THEN "init_load" ELSE "init_unlock")
    /\ UNCHANGED <<call, airtable, pg, ctx, discord>>

\* __init__: TextEmbedding(model_name=...) builds the model
VtInitLoad(t) ==
    /\ At(t, "init_load")
    /\ vectors' = [Goto(t, "init_assign") EXCEPT !.loads = @ + 1]
    /\ UNCHANGED <<call, airtable, pg, ctx, discord>>

\* __init__: VectorTools._model = the model built
VtInitAssign(t) ==
    /\ At(t, "init_assign")
    /\ vectors' = [Goto(t, "init_unlock") EXCEPT !._model = Loaded]
    /\ UNCHANGED <<call, airtable, pg, ctx, discord>>

\* __init__: leaving the with block; VectorTools() returns
VtInitUnlock(t) ==
    /\ At(t, "init_unlock")
    /\ vectors' = [Goto(t, "constructed") EXCEPT !._lock = NoThread]
    /\ UNCHANGED <<call, airtable, pg, ctx, discord>>

----------------------------------------------------------------------------
(* Backing data and specifications *)

IdleCtx == [p \in Invocations |-> Idle]

AirtableStates ==
    {[contacts |-> [c \in {"rec1"} |-> contact], jobs |-> EmptyDict] :
        contact \in ContactRecords}
    \cup
    {[contacts |-> [c \in {"rec1"} |-> contact], jobs |-> [j \in {"job1"} |-> job]] :
        contact \in ContactRecords, job \in JobRecords}

PgStates ==
    {[generated_resumes |-> [a \in Apps |-> IF a = 1 THEN rows ELSE <<OtherRow>>],
      resumes |-> generic] :
        rows \in {<<>>} \cup {<<r>> : r \in GeneratedRows}
                        \cup {<<OldRow, r>> : r \in GeneratedRows},
        generic \in GenericResumes}

SampleAirtable ==
    [contacts |-> [c \in {"rec1"} |->
                     [Contact_Type |-> "hiring_manager", Job_Application |-> <<"job1">>]],
     jobs |-> [j \in {"job1"} |->
                 [Full_Description |-> <<"E", "P", "I", "C">>,
                  Resume_Postgres_ID |-> <<"1">>]]]

SamplePg ==
    [generated_resumes |-> [a \in Apps |-> IF a = 1 THEN <<OldRow>> ELSE <<OtherRow>>],
     resumes |-> <<[full_text |-> <<"s", "q", "l">>]>>]

\* the resolver over every backing store
Init ==
    /\ call = NoCall
    /\ airtable \in AirtableStates
    /\ pg \in PgStates
    /\ ctx = IdleCtx
    /\ vectors = NoVectors
    /\ discord = NoDiscord

Next ==
    \/ \E contact_id \in ContactIds, contact_http \in HttpOutcomes, job_http \in HttpOutcomes :
         CtxLookup(1, contact_id, contact_http, job_http)
    \/ \E outcome \in DbOutcomes : CtxColdEmail(1, outcome)
    \/ \E outcome \in DbOutcomes : CtxSkill(1, outcome)

Spec == Init /\ [][Next]_vars

\* the outreach workflow: the context returned by get_outreach_context is
\* handed to generate_cold_connect_note (job_description from the context's
\* job, resume_context from the context, no resume_highlights)
HunterFromContext(p) ==
    /\ ctx[p].pc = "done"
    /\ ctx[p].ret.success
    /\ \E content \in {<<"a">>} :
          GenerateColdConnectNote(content, DefaultMaxLength,
                                  Get(ctx[p].ret.job, "job_description", <<>>),
                                  ctx[p].ret.resume_context)

NextFlow ==
    \/ \E contact_id \in ContactIds, contact_http \in HttpOutcomes, job_http \in HttpOutcomes :
         CtxLookup(1, contact_id, contact_http, job_http)
    \/ \E outcome \in DbOutcomes : CtxColdEmail(1, outcome)
    \/ \E outcome \in DbOutcomes : CtxSkill(1, outcome)
    \/ HunterFromContext(1)

SpecFlow == Init /\ [][NextFlow]_vars

\* the webhook action get_outreach_context over every backing store
NextRoute ==
    \/ \E contact_id \in RouteContactIds, contact_http \in HttpOutcomes, job_http \in HttpOutcomes :
         RouteLookup(1, contact_id, contact_http, job_http)
    \/ \E outcome \in DbOutcomes : RouteColdEmail(1, outcome)
    \/ \E outcome \in DbOutcomes : RouteSkill(1, outcome)

SpecRoute == Init /\ [][NextRoute]_vars

\* contact names: None, the empty name, names of letters, blanks and tabs
MaxNameLen == 3
ContactNames == {None} \cup TextsUpTo({"A", "b", " ", "\t"}, MaxNameLen)
There == <<"there">>

\* contact_name.split(): the positions holding a non-whitespace character
TokenPositions(contact_name) ==
    {i \in 1..Len(contact_name) : contact_name[i] \notin Whitespace}

\* contact_name.split()[0]: the first whitespace-delimited token
FirstToken(contact_name) ==
    LET first == CHOOSE i \in TokenPositions(contact_name) :
                     \A j \in TokenPositions(contact_name) : i <= j
        blanks == {j \in first..Len(contact_name) : contact_name[j] \in Whitespace}
        last == IF blanks = {} THEN Len(contact_name)
                ELSE (CHOOSE j \in blanks : \A k \in blanks : j <= k) - 1
    IN  SubSeq(contact_name, first, last)

\* first_name = contact_name.split()[0] if contact_name else "there";
\* indexing the empty list split() gives for a blank name raises IndexError
first_name(contact_name) ==
    IF ~Truthy(contact_name)
    THEN [raised |-> FALSE, value |-> There]
    ELSE IF TokenPositions(contact_name) = {}
    THEN [raised |-> TRUE, value |-> None]
    ELSE [raised |-> FALSE, value |-> FirstToken(contact_name)]

\* generate_cold_connect_note for a contact of the given name, the service
\* answering; the greeting is computed before anything else
NoteForName(contact_name) ==
    /\ call = NoCall
    /\ call' = [op |-> "generate_cold_connect_note",
                args |-> [contact_name |-> contact_name],
                first_name |-> first_name(contact_name).value,
                raised |-> first_name(contact_name).raised,
                ret |-> IF first_name(contact_name).raised THEN EmptyDict
                        ELSE NoteResult(<<"a">>, DefaultMaxLength, <<>>, None, <<>>)]
    /\ UNCHANGED <<airtable, pg, ctx, vectors, discord>>

\* generate_warm_dm for a contact of the given name, the service answering
WarmDmForName(contact_name) ==
    /\ call = NoCall
    /\ call' = [op |-> "generate_warm_dm",
                args |-> [contact_name |-> contact_name],
                first_name |-> first_name(contact_name).value,
                raised |-> first_name(contact_name).raised,
                ret |-> IF first_name(contact_name).raised THEN EmptyDict
                        ELSE WarmResult(<<"a">>)]
    /\ UNCHANGED <<airtable, pg, ctx, vectors, discord>>

\* the inputs of _build_value_section: None, the empty text and short texts
MaxValueLen == 2
ValueTexts == TextsUpTo({"x", " "}, MaxValueLen)

\* _build_value_section applied to one combination of its three inputs
BuildValueSection(cold_email_template, resume_context, resume_highlights) ==
    /\ call = NoCall
    /\ call' = [op |-> "build_value_section",
                args |-> [cold_email_template |-> cold_email_template,
                          resume_context |-> resume_context,
                          resume_highlights |-> resume_highlights],
                raised |-> FALSE,
                ret |-> build_value_section(cold_email_template, resume_context,
                                            resume_highlights)]
    /\ UNCHANGED <<airtable, pg, ctx, vectors, discord>>

\* direct calls of the outreach tools
InitOutreach ==
    /\ call = NoCall
    /\ airtable = SampleAirtable
    /\ pg = SamplePg
    /\ ctx = IdleCtx
    /\ vectors = NoVectors
    /\ discord = NoDiscord

\* texts short enough to pair with every skill-framing input
ShortTexts == TextsUpTo(MsgAlphabet, 1)

NextOutreach ==
    \/ /\ call = NoCall
       /\ \E d \in Degrees, s \in Sources : DeterminePipeline(d, s)
    \/ /\ call = NoCall
       /\ \/ \E content \in ServiceTexts, max_length \in MaxLengths :
               GenerateColdConnectNote(content, max_length, <<>>, None)
          \/ \E content \in ShortTexts, max_length \in MaxLengths,
                jd \in NoteJobDescriptions, rc \in NoteResumeContexts :
               GenerateColdConnectNote(content, max_length, jd, rc)
    \/ /\ call = NoCall
       /\ \E max_length \in MaxLengths, jd \in NoteJobDescriptions,
             rc \in NoteResumeContexts :
            GenerateColdConnectNoteFails(max_length, jd, rc)

SpecOutreach == InitOutreach /\ [][NextOutreach]_vars

\* direct calls of generate_warm_dm, refine_message and generate_message, and
\* the failing service call of each generator
NextMessage ==
    \/ /\ call = NoCall
       /\ \/ \E content \in MessageTexts :
               GenerateWarmDm(content, None, None, <<>>)
          \/ \E content \in ShortTexts, cet \in ColdEmailTemplates,
                rc \in ResumeContexts, rh \in ResumeHighlights :
               GenerateWarmDm(content, cet, rc, rh)
    \/ /\ call = NoCall
       /\ \E cet \in ColdEmailTemplates, rc \in ResumeContexts, rh \in ResumeHighlights :
            GenerateWarmDmFails(cet, rc, rh)
    \/ /\ call = NoCall
       /\ \E content \in MessageTexts, max_length \in RefineMaxLengths,
             pipeline \in Pipelines :
            RefineMessage(content, max_length, pipeline)
    \/ /\ call = NoCall
       /\ \E max_length \in RefineMaxLengths, pipeline \in Pipelines :
            RefineMessageFails(max_length, pipeline)
    \/ /\ call = NoCall
       /\ \/ \E content \in MessageTexts, d \in Degrees, s \in Sources :
               GenerateMessage(content, d, s, None, None, <<>>)
          \/ \E content \in ShortTexts, d \in Degrees, s \in Sources,
                cet \in ColdEmailTemplates, rc \in ResumeContexts,
                rh \in ResumeHighlights :
               GenerateMessage(content, d, s, cet, rc, rh)
    \/ /\ call = NoCall
       /\ \E d \in Degrees, s \in Sources : GenerateMessageFails(d, s)
    \/ /\ call = NoCall
       /\ \E max_length \in MaxLengths, jd \in NoteJobDescriptions,
             rc \in NoteResumeContexts :
            GenerateColdConnectNoteFails(max_length, jd, rc)

SpecMessage == InitOutreach /\ [][NextMessage]_vars

NextValue ==
    /\ call = NoCall
    /\ \E cold_email_template \in {None} \cup ValueTexts, resume_context \in {None} \cup ValueTexts, resume_highlights \in ValueTexts :
          BuildValueSection(cold_email_template, resume_context, resume_highlights)

SpecValue == InitOutreach /\ [][NextValue]_vars

NextName ==
    /\ call = NoCall
    /\ \/ \E contact_name \in ContactNames : NoteForName(contact_name)
       \/ \E contact_name \in ContactNames : WarmDmForName(contact_name)

SpecName == InitOutreach /\ [][NextName]_vars

\* direct calls of get_cold_email over every generated_resumes table
InitResume ==
    /\ call = NoCall
    /\ airtable = SampleAirtable
    /\ pg \in PgStates
    /\ ctx = IdleCtx
    /\ vectors = NoVectors
    /\ discord = NoDiscord

NextResume ==
    /\ call = NoCall
    /\ \E application_id \in {0, 1, 2, 3}, contact_type \in ContactTypes,
          outcome \in DbOutcomes :
         GetColdEmail(application_id, contact_type, outcome)

SpecResume == InitResume /\ [][NextResume]_vars

\* direct calls of check_skill_match over every generic resume text
SkillAlphabet == {"e", "E", "p"}
SkillTexts == TextsUpTo(SkillAlphabet, MaxSkillTextLen)
SkillKeywords == TextsUpTo(SkillAlphabet, MaxSkillLen)

InitSkill ==
    /\ call = NoCall
    /\ airtable = SampleAirtable
    /\ \E t \in SkillTexts \cup {None} :
         pg = [generated_resumes |->
                   [a \in Apps |-> IF a = 1
                                   THEN <<[OldRow EXCEPT !.final_content = <<"p", "E">>]>>
                                   ELSE <<[OldRow EXCEPT !.final_content = None,
                                                         !.tailored_content = <<"e">>]>>],
               resumes |-> <<[full_text |-> t]>>]
    /\ ctx = IdleCtx
    /\ vectors = NoVectors
    /\ discord = NoDiscord

NextSkill ==
    /\ call = NoCall
    /\ \E jd \in SkillTexts, skill \in SkillKeywords, application_id \in {NoApp, 0, 1, 2},
          outcome \in DbOutcomes :
         CheckSkillMatch(jd, skill, application_id, outcome)

SpecSkill == InitSkill /\ [][NextSkill]_vars

\* the store tools, in any order, over a small Applications table and a
\* Contacts table that is empty or holds one contact in any status
StoreContacts ==
    {[c \in {} |-> EmptyDict]}
    \cup
    {[c \in {"rec1"} |-> [NewContactFields("job1", EmptyDict) EXCEPT !.Outreach_Status = s]] :
        s \in OutreachStatuses}

StoreJobs ==
    {[j \in {"job1", "job2", "job3"} |->
         IF j = "job1"
         THEN [Status |-> "In progress", Job_Link |-> <<"u">>, Contacts_Found |-> found]
         ELSE IF j = "job2"
         THEN [Status |-> "Todo", Job_Link |-> <<"u">>, Contacts_Found |-> FALSE]
         ELSE [Status |-> "In progress", Job_Link |-> <<>>, Contacts_Found |-> FALSE]] :
        found \in BOOLEAN}

InitStore ==
    /\ call = NoCall
    /\ \E contacts \in StoreContacts, jobs \in StoreJobs :
         airtable = [contacts |-> contacts, jobs |-> jobs]
    /\ pg = SamplePg
    /\ ctx = IdleCtx
    /\ vectors = NoVectors
    /\ discord = NoDiscord

NextStore ==
    \/ \E status \in JobStatuses, http \in HttpOutcomes :
         GetJobsNeedingContacts(status, http)
    \/ \E job_id \in StoreJobIds, contacts \in Batches, mark_http \in HttpOutcomes :
         \E outcomes \in [1..Len(contacts) -> HttpOutcomes] :
            SaveContactsToAirtable(job_id, contacts, outcomes, mark_http)
    \/ \E contact_id \in StoreContactIds, status \in OutreachStatuses,
          http \in HttpOutcomes :
         UpdateContactStatus(contact_id, status, http)
    \/ \E contact_id \in StoreContactIds, message \in Drafts, http \in HttpOutcomes :
         SaveMessageDraft(contact_id, message, http)
    \/ \E contact_id \in StoreContactIds, final_message \in Drafts,
          http \in HttpOutcomes :
         MarkContactApproved(contact_id, final_message, http)

SpecStore == InitStore /\ [][NextStore]_vars

\* the two entry points that save contacts: the tool and the webhook action
NextSave ==
    \/ \E job_id \in StoreJobIds, contacts \in Batches, mark_http \in HttpOutcomes :
         \E outcomes \in [1..Len(contacts) -> HttpOutcomes] :
            SaveContactsToAirtable(job_id, contacts, outcomes, mark_http)
    \/ \E job_id \in StoreJobIds \cup {""}, contacts \in Batches, mark_http \in HttpOutcomes :
         \E outcomes \in [1..Len(contacts) -> HttpOutcomes] :
            WebhookSaveContacts(job_id, contacts, outcomes, mark_http)

SpecSave == InitStore /\ [][NextSave]_vars

\* discovery followed by save_contacts, on a store without contacts
InitDiscovery ==
    /\ call = NoCall
    /\ \E jobs \in StoreJobs : airtable = [contacts |-> EmptyDict, jobs |-> jobs]
    /\ pg = SamplePg
    /\ ctx = IdleCtx
    /\ vectors = NoVectors
    /\ discord = NoDiscord

NextDiscovery ==
    \/ \E searches \in [1..3 -> ApolloSearches] : FindCompanyContacts(searches)
    \/ \E searches \in [1..3 -> ApifySearches] : DiscoverContactsForJob(searches)
    \/ \E searches \in [1..3 -> ApifySearches] : FindContactsApify(searches)
    \/ \E matches \in 0..MaxPeople : AnalyzeNetworkOverlap(matches)
    \/ /\ call.op \in DiscoveryOps
       /\ \E job_id \in StoreJobIds :
            \E outcomes \in [1..Len(call.ret.contacts) -> HttpOutcomes] :
               SaveDiscovered(job_id, outcomes)

SpecDiscovery == InitDiscovery /\ [][NextDiscovery]_vars

\* one approval thread: the user and the bot post, wait_for_response polls
InitDiscord ==
    /\ call = NoCall
    /\ airtable = SampleAirtable
    /\ pg = SamplePg
    /\ ctx = IdleCtx
    /\ vectors = NoVectors
    /\ discord = ThreadOpened

\* the steps of a running wait_for_response
WaitStep ==
    \/ WaitCheckTimeout
    \/ \E http \in HttpOutcomes : WaitFetch(http)
    \/ WaitSleep

NextDiscord ==
    \/ \E content \in ReplyTexts : UserReplies(content)
    \/ BotPosts
    \/ \E timeout_seconds \in 0..MaxTimeout : WaitStart(timeout_seconds)
    \/ WaitCheckTimeout
    \/ \E http \in HttpOutcomes : WaitFetch(http)
    \/ WaitSleep

SpecDiscord == InitDiscord /\ [][NextDiscord]_vars

\* the event loop resumes a waiting coroutine: a request gets its answer
\* within the client's timeout and a sleep ends
FairSpecDiscord == SpecDiscord /\ WF_vars(WaitStep)

\* VectorTools() called from several threads, interleaved at every bytecode
\* boundary the interpreter allows
InitVectors ==
    /\ call = NoCall
    /\ airtable = SampleAirtable
    /\ pg = SamplePg
    /\ ctx = IdleCtx
    /\ vectors = VectorsAtImport
    /\ discord = NoDiscord

NextVectors ==
    \E t \in Threads :
        \/ VtNewCheck(t)
        \/ VtNewLock(t)
        \/ VtNewRecheck(t)
        \/ VtNewCreate(t)
        \/ VtNewUnlock(t)
        \/ VtNewReturn(t)
        \/ VtInitCheck(t)
        \/ VtInitLock(t)
        \/ VtInitRecheck(t)
        \/ VtInitLoad(t)
        \/ VtInitAssign(t)
        \/ VtInitUnlock(t)

SpecVectors == InitVectors /\ [][NextVectors]_vars

\* two invocations of get_outreach_context, for the same contact or for two
\* contacts, interleaved at their await points
TwoContactIds == {"rec1", "rec2"}

TwoAirtableStates ==
    {[contacts |-> [c \in TwoContactIds |->
                      IF c = "rec1"
                      THEN [Contact_Type |-> contact_type, Job_Application |-> <<"job1">>]
                      ELSE [Contact_Type |-> "recruiter", Job_Application |-> <<"job2">>]],
      jobs |-> [j \in {"job1", "job2"} |->
                  IF j = "job1"
                  THEN [Full_Description |-> job_description, Resume_Postgres_ID |-> link]
                  ELSE [Full_Description |-> <<"s", "q", "l">>,
                        Resume_Postgres_ID |-> <<"2">>]]] :
        contact_type \in {"hiring_manager", "team_member"},
        job_description \in {<<>>, <<"E", "P", "I", "C">>},
        link \in {None, <<"1">>, <<"x">>}}

TwoPgStates ==
    {[generated_resumes |-> [a \in Apps |-> IF a = 1 THEN rows ELSE <<OtherRow>>],
      resumes |-> <<[full_text |-> <<"s", "q", "l">>]>>] :
        rows \in {<<>>, <<OldRow>>}}

InitTwo ==
    /\ call = NoCall
    /\ airtable \in TwoAirtableStates
    /\ pg \in TwoPgStates
    /\ ctx = IdleCtx
    /\ vectors = NoVectors
    /\ discord = NoDiscord

NextTwo ==
    \E p \in Invocations :
        \/ \E contact_id \in TwoContactIds, contact_http \in HttpOutcomes,
              job_http \in HttpOutcomes :
             CtxLookup(p, contact_id, contact_http, job_http)
        \/ \E outcome \in DbOutcomes : CtxColdEmail(p, outcome)
        \/ \E outcome \in DbOutcomes : CtxSkill(p, outcome)

SpecTwo == InitTwo /\ [][NextTwo]_vars


----------------------------------------------------------------------------
(* Properties *)

NoteReturned == call.op = "generate_cold_connect_note" /\ ~call.raised

\* C1: determine_pipeline returns "farmer" exactly when connection_degree is
\* "1st" or contact_source is "csv_import", and "hunter" in every other case,
\* whatever the two arguments are.
C1_RoutingRule ==
    call.op = "determine_pipeline" =>
        /\ call.ret \in {"farmer", "hunter"}
        /\ (call.ret = "farmer") <=> (\/ call.args.connection_degree = "1st"
                                      \/ call.args.contact_source = "csv_import")

C1_Witness ==
    /\ call.op = "determine_pipeline"
    /\ call.args.connection_degree = "2nd"
    /\ call.args.contact_source = "csv_import"
    /\ call.ret = "farmer"

\* C2: for every text the generation service returns and every max_length, the
\* hunter message is at most max_length characters long and char_count is its
\* length.
C2_LengthCap ==
    NoteReturned =>
        /\ Len(call.ret.message) <= call.args.max_length
        /\ call.ret.char_count = Len(call.ret.message)

\* positions (1-based) of sentence-ending punctuation in a text
PunctuationAt(text) == {i \in 1..Len(text) : text[i] \in {".", "?"}}
LastOf(S) == CHOOSE i \in S : \A j \in S : j <= i

\* the message the truncation rule prescribes for text under max_length, the
\* sentence cut being taken when the predicate atCut holds of the 0-based index
\* of the last punctuation in the window
Prescribed(text, max_length, atCut(_)) ==
    LET window == SubSeq(text, 1, Min(max_length, Len(text)))
        marks == PunctuationAt(window)
    IN  IF Len(text) <= max_length THEN text
        ELSE IF marks # {} /\ atCut(LastOf(marks) - 1)
        THEN SubSeq(window, 1, LastOf(marks))
        ELSE Prefix(window, max_length - 3) \o Ellipsis

\* C3 as stated: the sentence cut is taken when the cut point is at or after
\* 60% of max_length, otherwise the first max_length-3 characters plus "...";
\* a text within max_length is returned unchanged.
C3_CutAtOrAfter60 ==
    NoteReturned =>
        LET m == call.args.max_length
            AtOrAfter(cut) == 10 * cut >= 6 * m
        IN  call.ret.message = Prescribed(CleanMessage(call.service), m, AtOrAfter)

\* C3 amended: the sentence cut is taken only when the index of the last
\* punctuation is strictly greater than 60% of max_length; otherwise the
\* message is the slice window[:max_length-3] plus "..."; a text within
\* max_length is returned unchanged.
C3_CutStrictlyAfter60 ==
    NoteReturned =>
        LET m == call.args.max_length
            StrictlyAfter(cut) == 10 * cut > 6 * m
        IN  call.ret.message = Prescribed(CleanMessage(call.service), m, StrictlyAfter)

\* the last punctuation sits exactly at 60% of max_length: the ellipsis cut
C3_Witness ==
    /\ NoteReturned
    /\ call.args.max_length = 5
    /\ CleanMessage(call.service) = <<"a", "a", "a", ".", "a", "a">>
    /\ call.ret.message = <<"a", "a", ".", ".", ".">>

\* the generated_resumes row get_cold_email worked from, when it fetched one
RowFetched ==
    /\ call.op = "get_cold_email"
    /\ ~call.raised
    /\ call.db = "ok"
    /\ call.args.application_id \in DOMAIN pg.generated_resumes
    /\ pg.generated_resumes[call.args.application_id] # <<>>

StoredRow ==
    LET rows == pg.generated_resumes[call.args.application_id]
    IN  rows[Len(rows)]

\* a stored column is non-empty: neither NULL nor ""
NonEmpty(v) == v # None /\ Len(v) > 0

\* get_cold_email went through its fallback chain
FellBack == RowFetched /\ call.ret.cold_email = None

\* C4: with a non-empty final_content, the fallback chain returns final_content
\* as resume_context and never names tailored_content as source_field.
C4_FinalBeforeTailored ==
    (FellBack /\ NonEmpty(StoredRow.final_content)) =>
        /\ call.ret.resume_context = StoredRow.final_content
        /\ call.ret.source_field # "tailored_content"

C4_Witness ==
    /\ FellBack
    /\ call.args.contact_type = "team_member"
    /\ NonEmpty(StoredRow.final_content)
    /\ NonEmpty(StoredRow.tailored_content)
    /\ call.ret.source_field = "final_content"

\* C5: on fallback, fallback_used is true and source_field names the field that
\* supplied resume_context: final_content, else tailored_content, else null
\* with a null resume_context.
C5_SourceFieldNamesSupplier ==
    FellBack =>
        /\ call.ret.fallback_used
        /\ call.ret.source_field =
             IF NonEmpty(StoredRow.final_content) THEN "final_content"
             ELSE IF NonEmpty(StoredRow.tailored_content) THEN "tailored_content"
             ELSE Nil
        /\ (~NonEmpty(StoredRow.final_content) /\ ~NonEmpty(StoredRow.tailored_content))
              => call.ret.resume_context = None

\* C6: for contact_type team_member and every row, also one with both cold
\* emails, cold_email is null, fallback_used is true and resume_context is
\* final_content, else tailored_content, else null.
C6_TeamMemberFallsBack ==
    (RowFetched /\ call.args.contact_type = "team_member") =>
        /\ call.ret.cold_email = None
        /\ call.ret.fallback_used
        /\ call.ret.resume_context =
             IF NonEmpty(StoredRow.final_content) THEN StoredRow.final_content
             ELSE IF NonEmpty(StoredRow.tailored_content) THEN StoredRow.tailored_content
             ELSE None

C6_Witness ==
    /\ RowFetched
    /\ call.args.contact_type = "team_member"
    /\ NonEmpty(StoredRow.cold_email_manager)
    /\ NonEmpty(StoredRow.cold_email_recruiter)
    /\ call.ret.cold_email = None
    /\ call.ret.resume_context = <<"t", "e", "p", "i", "c">>

\* two characters equal up to letter case
SameLetter(a, b) ==
    a = b \/ \E i \in 1..26 : {a, b} = {UpperLetters[i], LowerLetters[i]}

\* needle occurs in hay at some offset, letter case ignored
ContainsIgnoringCase(needle, hay) ==
    \E off \in 0..(Len(hay) - Len(needle)) :
        \A k \in 1..Len(needle) : SameLetter(hay[off + k], needle[k])

SkillReturned == call.op = "check_skill_match" /\ ~call.raised

\* C8: requirement_found and skill_found are the case-insensitive containment
\* of the skill in the job description and in the resume text, has_gap is
\* requirement_found and not skill_found, and recommendation is non-null
\* exactly when has_gap.
C8_SkillGap ==
    SkillReturned =>
        /\ call.ret.requirement_found
             = ContainsIgnoringCase(call.args.skill_to_check, call.args.job_description)
        /\ call.ret.skill_found
             = ContainsIgnoringCase(call.args.skill_to_check, call.resume_text)
        /\ call.ret.has_gap = (call.ret.requirement_found /\ ~call.ret.skill_found)
        /\ (call.ret.recommendation # Nil) = call.ret.has_gap

C8_Witness ==
    /\ SkillReturned
    /\ call.args.skill_to_check = <<"E", "p">>
    /\ call.args.job_description = <<"e", "p">>
    /\ call.resume_text = <<"p", "E">>
    /\ call.ret.has_gap
    /\ call.ret.recommendation # Nil

\* what the resolver's lookup handed back for invocation p
FetchedJob(p) == Get(ctx[p].contact_job, "job", EmptyDict)
FetchedLink(p) == Get(FetchedJob(p), "resume_postgres_id", None)
FetchedType(p) == Get(ctx[p].contact_job, "contact", EmptyDict).contact_type
Finished(p) == ctx[p].pc \in {"done", "raised"}
LookupSucceeded(p) ==
    ctx[p].pc \in {"cold_email", "skill", "done"} /\ Get(ctx[p].contact_job, "success", FALSE)

RoleField(contact_type) ==
    IF contact_type = "hiring_manager" THEN "cold_email_manager" ELSE "cold_email_recruiter"

\* the latest generated_resumes row of the application the job links to was
\* fetched and holds a non-empty cold email for the contact's type
RoleEmailFetched(p) ==
    /\ LookupSucceeded(p)
    /\ FetchedType(p) \in {"hiring_manager", "recruiter"}
    /\ FetchedLink(p) # None
    /\ ParsesAsInt(FetchedLink(p))
    /\ IntOf(FetchedLink(p)) \in DOMAIN pg.generated_resumes
    /\ pg.generated_resumes[IntOf(FetchedLink(p))] # <<>>
    /\ "note" \notin DOMAIN ctx[p].cold_email_data
    /\ LET rows == pg.generated_resumes[IntOf(FetchedLink(p))]
       IN  NonEmpty(rows[Len(rows)][RoleField(FetchedType(p))])

\* C7: when the job's resume link parses as integer N and the latest row for N
\* holds a non-empty cold email for the contact's type, get_outreach_context
\* returns that text as cold_email with fallback_used false and source_field
\* the name of that field.
C7_RoleEmailReturned ==
    \A p \in Invocations :
        (ctx[p].pc = "done" /\ RoleEmailFetched(p)) =>
            LET rows == pg.generated_resumes[IntOf(FetchedLink(p))]
            IN  /\ ctx[p].ret.success
                /\ ctx[p].ret.cold_email = rows[Len(rows)][RoleField(FetchedType(p))]
                /\ ctx[p].ret.fallback_used = FALSE
                /\ ctx[p].ret.source_field = RoleField(FetchedType(p))

C7_Witness ==
    /\ ctx[1].pc = "done"
    /\ RoleEmailFetched(1)
    /\ FetchedLink(1) = <<" ", "1">>
    /\ Len(pg.generated_resumes[1]) = 2
    /\ FetchedType(1) = "recruiter"
    /\ ctx[1].ret.cold_email = <<"r">>

\* C9: when the contact lookup reports failure, get_outreach_context returns a
\* failure result with the adapter's error message unchanged and contact and
\* job null, and makes no resume-store lookup and no skill-gap check.
C9_LookupFailurePropagates ==
    \A p \in Invocations :
        (Finished(p) /\ "success" \in DOMAIN ctx[p].contact_job
                     /\ ~ctx[p].contact_job.success) =>
            /\ ctx[p].pc = "done"
            /\ ctx[p].ret = [success |-> FALSE,
                             error |-> ctx[p].contact_job.error,
                             contact |-> None,
                             job |-> None]
            /\ ctx[p].store_lookups = 0
            /\ ctx[p].skill_checks = 0

C9_Witness ==
    /\ ctx[1].pc = "done"
    /\ ctx[1].contact_id = "rec1"
    /\ ~ctx[1].contact_job.success
    /\ ctx[1].ret.error = <<"Contact not found: ", "RATE_LIMIT">>

\* the job's resume link is non-empty and is no integer
InvalidLink(p) ==
    /\ LookupSucceeded(p) \/ ctx[p].pc = "raised"
    /\ Truthy(FetchedLink(p))
    /\ ~ParsesAsInt(FetchedLink(p))

\* C10: with a non-empty resume link that is no integer, get_outreach_context
\* raises nothing and returns a success context with cold_email null,
\* resume_context null, fallback_used true and a note recording the invalid
\* value.
C10_InvalidLinkNoted ==
    \A p \in Invocations :
        (Finished(p) /\ InvalidLink(p)) =>
            /\ ctx[p].pc = "done"
            /\ ctx[p].ret.success
            /\ ctx[p].ret.cold_email = None
            /\ ctx[p].ret.resume_context = None
            /\ ctx[p].ret.fallback_used
            /\ "note" \in DOMAIN ctx[p].ret
            /\ ctx[p].ret.note = <<"Invalid resume_postgres_id: ", FetchedLink(p)>>

\* C11: once the contact lookup has succeeded, get_outreach_context never
\* raises: whatever the resume-store and skill-check steps meet (no record,
\* query error, connection failure), it ends with a success context.
C11_NeverRaisesAfterLookup ==
    \A p \in Invocations :
        (Finished(p) /\ Get(ctx[p].contact_job, "success", FALSE)) =>
            /\ ctx[p].pc = "done"
            /\ ctx[p].ret.success

\* the order of the outreach statuses: Ready, Drafted, Approved or Skipped, Sent
StatusRank(s) ==
    CASE s = "Ready" -> 0
      [] s = "Drafted" -> 1
      [] s \in {"Approved", "Skipped"} -> 2
      [] s = "Sent" -> 3

\* the status stays, or moves to a later one and not out of Skipped
Forward(s, t) == s = t \/ (s # "Skipped" /\ StatusRank(t) > StatusRank(s))

\* C12: for every contact and every sequence of store operations
\* (save_contacts, save_message_draft, mark_contact_approved,
\* update_contact_status), the contact's Outreach_Status only moves forward:
\* it never returns to an earlier status and never leaves Skipped.
C12_StatusOnlyForward ==
    [][\A c \in DOMAIN airtable.contacts :
          /\ c \in DOMAIN airtable'.contacts
          /\ Forward(airtable.contacts[c].Outreach_Status,
                     airtable'.contacts[c].Outreach_Status)]_vars

\* C19: the mark_contact_approved tool reports success with action "approved"
\* only when the store update that sets Outreach_Status to "Approved" and
\* saves the final message has succeeded.
C19_ApprovedOnlyWhenStored ==
    (/\ call.op = "mark_contact_approved"
     /\ ~call.raised
     /\ call.ret.success
     /\ call.ret.action = "approved") =>
        /\ call.updated
        /\ call.args.contact_id \in DOMAIN airtable.contacts
        /\ airtable.contacts[call.args.contact_id].Outreach_Status = "Approved"
        /\ airtable.contacts[call.args.contact_id].Message_Final = call.args.final_message

ContactsFound(store, j) == j \in DOMAIN store.jobs /\ store.jobs[j].Contacts_Found

\* C20: after save_contacts_to_airtable returns success for a job, the job's
\* Contacts_Found flag is true and stays true, so no later
\* get_jobs_needing_contacts returns the job; and a call whose batch had a
\* failed contact creation leaves the flag as it was.
C20_SavedJobMarkedFound ==
    [][/\ (/\ call'.op = "save_contacts_to_airtable"
           /\ ~call'.raised
           /\ call'.args.job_id \in DOMAIN airtable.jobs) =>
              /\ call'.ret.success => ContactsFound(airtable', call'.args.job_id)
              /\ call'.ret.errors # <<>> =>
                    (ContactsFound(airtable', call'.args.job_id)
                        <=> ContactsFound(airtable, call'.args.job_id))
       /\ \A j \in DOMAIN airtable.jobs :
              ContactsFound(airtable, j) => ContactsFound(airtable', j)
       /\ (call'.op = "get_jobs_needing_contacts" /\ ~call'.raised) =>
              \A j \in call'.ret.jobs : ~ContactsFound(airtable', j)]_vars

\* both invocations have ended, and were called with the same contact_id
CalledTwice ==
    Finished(1) /\ Finished(2) /\ ctx[1].contact_id = ctx[2].contact_id

\* the two invocations ended the same way, with the same returned context
SameOutcome ==
    /\ ctx[1].pc = ctx[2].pc
    /\ ctx[1].pc = "done" =>
          /\ ctx[1].ret.success = ctx[2].ret.success
          /\ ctx[1].ret = ctx[2].ret

StoresUntouched == airtable' = airtable /\ pg' = pg

\* C13 as stated: two calls of get_outreach_context with the same contact_id
\* against unchanged backing data return identical contexts, and no call
\* changes the contact/job store or the resume store.
C13_SameContactSameContext ==
    [](CalledTwice => SameOutcome) /\ [][StoresUntouched]_vars

\* C13: two calls of get_outreach_context with the same contact_id, whose
\* requests to the stores meet the same outcomes, return identical contexts,
\* and no call changes the contact/job store or the resume store.
C13_SameContactSameOutcomes ==
    []((CalledTwice /\ ctx[1].seen = ctx[2].seen) => SameOutcome)
        /\ [][StoresUntouched]_vars

C13_Witness ==
    /\ CalledTwice
    /\ ctx[1].seen = ctx[2].seen
    /\ ctx[1].pc = "done"
    /\ ctx[1].contact_id = "rec1"
    /\ ctx[1].ret.success
    /\ ctx[1].ret.cold_email = <<"o", "m">>
    /\ ctx[1].ret.has_epic_gap

\* C14: for any interleaving, at their await points, of two invocations of
\* get_outreach_context for different contact ids, each ends exactly as it
\* would have run alone with the same request outcomes: same return or raise,
\* same context, nothing taken from the other contact's data.
C14_InterleavedAsAlone ==
    (Finished(1) /\ Finished(2) /\ ctx[1].contact_id # ctx[2].contact_id) =>
        \A p \in Invocations :
            LET alone == ResolveAlone(ctx[p].contact_id, ctx[p].seen)
            IN  /\ ctx[p].pc = alone.pc
                /\ ctx[p].contact_job = alone.contact_job
                /\ ctx[p].pc = "done" => ctx[p].ret = alone.ret

\* both invocations have returned the context of their own contact
C14_Witness ==
    /\ ctx[1].pc = "done" /\ ctx[2].pc = "done"
    /\ ctx[1].contact_id = "rec1" /\ ctx[2].contact_id = "rec2"
    /\ ctx[1].ret.success /\ ctx[2].ret.success
    /\ ctx[1].ret.cold_email = <<"o", "m">>
    /\ ctx[2].ret.cold_email = <<"x", "r">>
    /\ ctx[2].ret.contact.contact_id = "rec2"

MessageReturned == call.op = "generate_message" /\ ~call.raised

\* C15: for every (connection_degree, contact_source), generate_message
\* invokes exactly one generator, generate_warm_dm when determine_pipeline
\* returns "farmer" and generate_cold_connect_note otherwise; the result's
\* pipeline tag is the router's decision; only the hunter result carries a
\* length cap (max_allowed = 295), and the farmer text is the service's text
\* cleaned and not truncated.
C15_OneGeneratorPerRoute ==
    MessageReturned =>
        LET pipeline == determine_pipeline(call.args.connection_degree,
                                           call.args.contact_source)
        IN  /\ Len(call.invoked) = 1
            /\ call.service_calls = 1
            /\ call.ret.pipeline = pipeline
            /\ pipeline = "farmer" =>
                  /\ call.invoked[1] = "generate_warm_dm"
                  /\ call.ret.type = "warm_dm"
                  /\ "max_allowed" \notin DOMAIN call.ret
                  /\ call.ret.message = StripChars(StripChars(call.service, Whitespace),
                                                   QuoteChars)
                  /\ call.ret.char_count = Len(call.ret.message)
            /\ pipeline # "farmer" =>
                  /\ call.invoked[1] = "generate_cold_connect_note"
                  /\ call.ret.type = "cold_connect_note"
                  /\ call.ret.max_allowed = 295

\* a 2nd-degree contact imported from the CSV gets the farmer text in full
C15_Witness ==
    /\ MessageReturned
    /\ call.args.connection_degree = "2nd"
    /\ call.args.contact_source = "csv_import"
    /\ call.invoked = <<"generate_warm_dm">>
    /\ call.service = <<" ", "a", ".", "a", "\"">>
    /\ call.ret.message = <<"a", ".", "a">>
    /\ call.ret.pipeline = "farmer"

\* the generation service call of one of the three generators failed
ServiceFailed ==
    /\ call.op \in {"generate_cold_connect_note", "generate_warm_dm", "refine_message"}
    /\ call.service = None

\* C16: when the text-generation service call fails,
\* generate_cold_connect_note, generate_warm_dm and refine_message return a
\* failure result (success false) instead of letting the exception propagate,
\* and the service is not invoked a second time.
C16_GenerationFailureReturned ==
    ServiceFailed =>
        /\ ~call.raised
        /\ "ret" \in DOMAIN call
        /\ call.ret.success = FALSE
        /\ call.service_calls = 1

\* no cold email, no resume context, no highlights
Degraded ==
    /\ ~Truthy(call.args.cold_email_template)
    /\ ~Truthy(call.args.resume_context)
    /\ ~Truthy(call.args.resume_highlights)

\* C17: for a degraded context, every successful result of generate_message
\* carries a non-empty message, whatever text the generation service returns.
C17_DegradedMessageNonEmpty ==
    (MessageReturned /\ Degraded /\ call.ret.success) =>
        /\ call.ret.message # <<>>
        /\ call.ret.char_count > 0

RefineReturned == call.op = "refine_message" /\ ~call.raised

\* C18: refine_message uses max_length 295 for pipeline "hunter" when no
\* limit is given and no limit for "farmer" when none is given; a regenerated
\* text longer than the effective max_length comes back as its first
\* max_length-3 characters followed by "...", so a hunter draft is never
\* longer than the effective max_length.
C18_RefineHardLimit ==
    RefineReturned =>
        LET given == call.args.max_length
            effective == call.ret.max_allowed
            text == StripChars(StripChars(call.service, Whitespace), QuoteChars)
        IN  /\ (call.args.pipeline = "hunter" /\ given = NoMaxLength) => effective = 295
            /\ (call.args.pipeline = "farmer" /\ given = NoMaxLength) =>
                  (effective = NoMaxLength /\ call.ret.message = text)
            /\ given # NoMaxLength => effective = given
            /\ (effective # NoMaxLength /\ Len(text) > effective) =>
                  call.ret.message =
                      SubSeq(text, 1, Max(effective - 3, 0)) \o <<".", ".", ".">>
            /\ (effective # NoMaxLength /\ Len(text) <= effective) =>
                  call.ret.message = text
            /\ (call.args.pipeline = "hunter") => Len(call.ret.message) <= effective

\* invocation p returned after a skill-gap check whose resume query was answered
SkillChecked(p) ==
    ctx[p].pc = "done" /\ ctx[p].skill_checks = 1 /\ ctx[p].seen.skill_db = "ok"

\* the application the fetched job links to, NoApp when the link is no integer
LinkedApp(p) ==
    IF Truthy(FetchedLink(p)) /\ ParsesAsInt(FetchedLink(p))
    THEN IntOf(FetchedLink(p)) ELSE NoApp

\* a generated-resume record can be fetched for the linked application
TailoredRecord(p) ==
    /\ LinkedApp(p) \in DOMAIN pg.generated_resumes
    /\ pg.generated_resumes[LinkedApp(p)] # <<>>

\* the text of the latest generic resume, empty when there is none
GenericText == IF pg.resumes = <<>> THEN <<>> ELSE pg.resumes[Len(pg.resumes)].full_text

NotedFromContext(p) ==
    /\ ctx[p].pc = "done"
    /\ ctx[p].ret.success
    /\ call.op = "generate_cold_connect_note"
    /\ ~call.raised

C22_HunterGapEqualsResolverGap ==
    \A p \in Invocations :
        NotedFromContext(p) => call.ret.has_epic_gap = ctx[p].ret.has_epic_gap

\* C23: the value section is built from exactly one source by strict
\* priority: cold email template, else resume context, else highlights,
\* else the fixed no-background sentence
ValueBuilt == call.op = "build_value_section"

C23_ValueSectionStrictPriority ==
    ValueBuilt =>
        LET cold_email_template == call.args.cold_email_template
            resume_context == call.args.resume_context
            resume_highlights == call.args.resume_highlights
        IN  /\ NonEmpty(cold_email_template) =>
                  call.ret = <<"Cold email template to condense">> \o cold_email_template
            /\ ~NonEmpty(cold_email_template) /\ NonEmpty(resume_context) =>
                  call.ret = <<"Resume context to draw from">> \o resume_context
            /\ ~NonEmpty(cold_email_template) /\ ~NonEmpty(resume_context)
                  /\ NonEmpty(resume_highlights) =>
                  call.ret = <<"Background highlights">> \o resume_highlights
            /\ ~NonEmpty(cold_email_template) /\ ~NonEmpty(resume_context)
                  /\ ~NonEmpty(resume_highlights) =>
                  call.ret = <<"No specific background provided. Focus on genuine interest in the role.">>

\* all three inputs non-empty and different: the template is the one used
C23_Witness ==
    /\ ValueBuilt
    /\ call.args.cold_email_template = <<"x">>
    /\ call.args.resume_context = <<"x", " ">>
    /\ call.args.resume_highlights = <<" ", "x">>
    /\ call.ret = <<"Cold email template to condense", "x">>

\* C24: both generators address the contact by the first whitespace-delimited
\* token of contact_name, by 'there' when the name has none (empty or only
\* whitespace), and never fail because of the name
Greeted == call.op \in {"generate_cold_connect_note", "generate_warm_dm"}

HasToken(contact_name) ==
    /\ contact_name # None
    /\ \E i \in 1..Len(contact_name) : contact_name[i] \notin Whitespace

C24_AddressedByFirstToken ==
    Greeted =>
        /\ ~call.raised
        /\ HasToken(call.args.contact_name) =>
              /\ call.first_name # <<>>
              /\ \A i \in 1..Len(call.first_name) : call.first_name[i] \notin Whitespace
              /\ \E a \in 0..Len(call.args.contact_name) :
                    /\ \A i \in 1..a : call.args.contact_name[i] \in Whitespace
                    /\ SubSeq(call.args.contact_name, a + 1, a + Len(call.first_name))
                          = call.first_name
                    /\ \/ a + Len(call.first_name) = Len(call.args.contact_name)
                       \/ call.args.contact_name[a + Len(call.first_name) + 1] \in Whitespace
        /\ ~HasToken(call.args.contact_name) => call.first_name = There

\* C25: every contact a discovery operation produced and save_contacts
\* stored has contact_type hiring_manager, recruiter or team_member
StoredContactTypes == {"hiring_manager", "recruiter", "team_member"}

C25_StoredContactTypeKnown ==
    call.op = "save_contacts" =>
        \A c \in DOMAIN airtable.contacts :
            airtable.contacts[c].Contact_Type \in StoredContactTypes

\* C26: under any interleaving of VectorTools() constructions exactly one
\* instance is created, the model is loaded exactly once, and every caller
\* gets that one instance with the model loaded
Constructed(t) == vectors.threads[t].pc = "constructed"

C26_OneInstanceOneLoad ==
    /\ vectors.created <= 1
    /\ vectors.loads <= 1
    /\ \A t \in Threads :
          Constructed(t) =>
              /\ vectors.created = 1
              /\ vectors.loads = 1
              /\ vectors.threads[t].self = vectors._instance
              /\ vectors.threads[t].self # NoInstance
              /\ vectors._model = Loaded
    /\ \A t, u \in Threads :
          Constructed(t) /\ Constructed(u) =>
              vectors.threads[t].self = vectors.threads[u].self

\* every thread has got its instance back from VectorTools()
C26_Witness ==
    /\ \A t \in Threads : Constructed(t)
    /\ vectors.created = 1

\* C27: every wait_for_response call eventually returns, with approve, skip
\* or edit for a matching reply and with timeout otherwise
WaitReturned ==
    /\ discord.wait.pc = "returned"
    /\ discord.wait.ret.action \in {"approve", "skip", "edit", "timeout"}

C27_WaitEventuallyReturns == [](Waiting => <>WaitReturned)

\* C28: a reply that made one wait_for_response call return is not returned
\* again by a later call on the thread
C28_ReplyConsumedOnce ==
    \A i, j \in 1..Len(discord.consumed) :
        i # j => discord.consumed[i] # discord.consumed[j]

\* C29: through the tool or the webhook action, a job is marked
\* Contacts_Found only in a call that created a contact record for it; an
\* empty contacts list never marks it
CreatedFor(j) ==
    \E c \in DOMAIN airtable'.contacts :
        /\ c \notin DOMAIN airtable.contacts
        /\ airtable'.contacts[c].Job_Application = <<j>>

C29_MarkedOnlyWithCreatedContact ==
    [][\A j \in DOMAIN airtable.jobs :
          ~ContactsFound(airtable, j) /\ ContactsFound(airtable', j) => CreatedFor(j)]_vars

\* C30: for the same contact_id, backing data and service outcomes the
\* webhook action get_outreach_context and the get_outreach_context tool
\* return the same success flag and, on success, the same contact, job,
\* cold_email, resume_context and has_epic_gap
RouteReturned == ctx[1].pc = "done" /\ ctx[1].contact_id # ""

====
